---- MODULE Spec2Model ----
(***************************************************************************)
(* State-machine model of the dataset-fusion engine of datafusion_ml:      *)
(* fuse_datasets (fusion.py) with the helpers it calls in modeling.py.     *)
(* A call of fuse_datasets is a run of the machine from pc = "start" to    *)
(* pc = "done" (a FusionResult is returned) or pc = "raised" (an exception *)
(* propagates to the caller).                                              *)
(*                                                                         *)
(* DataFrames are Python objects: the heap maps an object reference to the *)
(* table it holds, and a local variable holds a reference.  A cell is <<>> *)
(* when missing (NaN/None) and <<v>> otherwise.  An Optional argument is   *)
(* None or Some(v).  The fitted estimators of scikit-learn / PyCaret are   *)
(* library code: they are modelled by their contract (when fit, split and  *)
(* predict reject their input) and by a deterministic function of the seed *)
(* and the data they are given.                                            *)
(***************************************************************************)
EXTENDS Integers, Sequences, FiniteSets, TLC

VARIABLES
    heap,               \* object reference -> table (the DataFrames alive)
    orig_a, orig_b,     \* the caller's tables as they were before the call
    args,               \* the arguments of the call
    env,                \* the runtime: is pycaret importable
    rng,                \* the ambient process-global random state
    config,             \* the effective FusionConfig (local `config`)
    overlap_features,   \* local, resolved at fusion.py:82-86
    targets_from_a,     \* local, resolved at fusion.py:91-92
    targets_from_b,     \* local, resolved at fusion.py:93-94
    a_feat, b_feat,     \* references of the aligned feature tables
    a_pred, b_pred,     \* references of the enriched tables
    idx,                \* position of the running for-loop in its target list
    models_a_to_b, metrics_a_to_b,
    models_b_to_a, metrics_b_to_a,
    fused,              \* the fused table of the FusionResult
    calls,              \* the backend calls made so far, in order
    warnings,           \* logger.warning events emitted so far
    pc,                 \* position inside fuse_datasets
    exc,                \* the exception that left fuse_datasets, if any
    call_no,            \* 1 during the first call, 2 during a repeated call
    first,              \* outcome of the first call, kept for the repeated one
    y_series,           \* input of a stand-alone detect_problem_type call
    detected            \* its result

VARIABLES
    req,                \* the response-shaping fields of a fuse request
    response,           \* the HTTP response to it
    _JOB_STORE,         \* job id -> job record (web/routers/fusion.py:25)
    _JOB_TIMESTAMPS,    \* job id -> time of the last write (fusion.py:26)
    clock,              \* time.time(), in seconds
    tasks,              \* job id -> state of its background task
    answer,             \* the last answer of fuse_async_status
    cv_args,            \* arguments of a stand-alone cross_validate_metrics call
    cv_result           \* its result

VARIABLES
    predict_args,       \* arguments of a stand-alone predict call
    predict_result,     \* its result
    rate_limiter,       \* the RateLimiter object (web/middleware.py:21-25)
    decisions,          \* the is_allowed calls made so far and what they returned
    environ,            \* the DFML_* settings of the process environment
    app                 \* what create_app built from them

fusion_vars == << heap, orig_a, orig_b, args, env, rng, config, overlap_features,
                  targets_from_a, targets_from_b, a_feat, b_feat, a_pred, b_pred, idx,
                  models_a_to_b, metrics_a_to_b, models_b_to_a, metrics_b_to_a,
                  fused, calls, warnings, pc, exc, call_no, first, y_series, detected >>

http_vars == << req, response >>

job_vars == << _JOB_STORE, _JOB_TIMESTAMPS, clock, tasks, answer >>

cv_vars == << cv_args, cv_result >>

predict_vars == << predict_args, predict_result >>

limiter_vars == << rate_limiter, decisions >>

app_vars == << environ, app >>

side_vars == << predict_vars, limiter_vars, app_vars >>

vars == << fusion_vars, http_vars, job_vars, cv_vars, side_vars >>

(***************************************************************************)
(* Bounds of the model.                                                    *)
(***************************************************************************)
MaxRows == 2
DetectMaxObs == 105
DetectMaxUnique == 21

(***************************************************************************)
(* Python values.                                                          *)
(***************************************************************************)
None == [given |-> FALSE, v |-> <<>>]
Some(x) == [given |-> TRUE, v |-> x]
NoRef == "None"
NoTable == [n |-> 0, cols |-> <<>>, col |-> <<>>]
NoExc == [type |-> "none", site |-> "none"]
EmptyMap == <<>>

Range(s) == {s[k] : k \in DOMAIN s}

\* Every column name that can occur, in Python's str order (what sorted() uses).
NameOrder == <<"f", "t", "t_pred", "u", "u_pred">>

sorted(S) == SelectSeq(NameOrder, LAMBDA c : c \in S)

Reverse(s) == [k \in 1..Len(s) |-> s[Len(s) + 1 - k]]

(***************************************************************************)
(* pandas: the DataFrame operations the engine uses.                       *)
(***************************************************************************)
Columns(df) == Range(df.cols)

\* df[names]: a new table of the named columns, in the order of the list.
GetItemList(df, names) ==
    [n |-> df.n, cols |-> names, col |-> [c \in Range(names) |-> df.col[c]]]

\* df[c] = series: replaces column c, or appends it as the last column.
SetItem(df, c, series) ==
    [n |-> df.n,
     cols |-> IF c \in Columns(df) THEN df.cols ELSE Append(df.cols, c),
     col |-> IF c \in Columns(df) THEN [df.col EXCEPT ![c] = series]
             ELSE df.col @@ (c :> series)]

\* df[c]: the column as a Series, which carries the column's name.
GetItem(df, c) ==
    [name |-> c, dtype |-> df.col[c].dtype, cats |-> df.col[c].cats, vals |-> df.col[c].vals]

dropna(vals) == SelectSeq(vals, LAMBDA x : x # <<>>)

unique(vals) == {x[1] : x \in Range(dropna(vals))}

is_numeric_dtype(series) == series.dtype \in {"int64", "Int64", "float64", "bool"}

is_object_or_categorical(series) == series.dtype \in {"object", "category"}

(***************************************************************************)
(* fusion.py: overlap and target inference.                                *)
(***************************************************************************)
\* the shared columns with the exclusion dropped
_infer_overlap_features_no_exclude(df_a, df_b, exclude) ==
    sorted(Columns(df_a) \cap Columns(df_b))

_infer_overlap_features(df_a, df_b, exclude) ==
    sorted((Columns(df_a) \cap Columns(df_b)) \ exclude)

\* every column of the left table, shared ones included
_exclusive_columns_all(df_left, df_right) == sorted(Columns(df_left))

_exclusive_columns(df_left, df_right) ==
    sorted(Columns(df_left) \ Columns(df_right))

\* `targets or []` (fusion.py:83): None and the empty list both give [].
OrEmpty(opt) == IF opt.given THEN opt.v ELSE <<>>

\* fusion.py:82-86
ResolveOverlapFeatures(df_a, df_b, a) ==
    IF ~a.overlap_features.given
    THEN _infer_overlap_features(df_a, df_b,
            Range(OrEmpty(a.targets_from_a)) \cup Range(OrEmpty(a.targets_from_b)))
    ELSE SelectSeq(a.overlap_features.v,
                   LAMBDA c : c \in Columns(df_a) /\ c \in Columns(df_b))

\* fusion.py:91-92
ResolveTargetsA(df_a, df_b, a) ==
    IF ~a.targets_from_a.given THEN _exclusive_columns(df_a, df_b)
    ELSE a.targets_from_a.v

\* fusion.py:93-94
ResolveTargetsB(df_a, df_b, a) ==
    IF ~a.targets_from_b.given THEN _exclusive_columns(df_b, df_a)
    ELSE a.targets_from_b.v

(***************************************************************************)
(* config.py: FusionConfig.  The dataclass has no n_jobs field; n_jobs is  *)
(* <<>> when the object carries no such attribute and <<v>> when the       *)
(* caller has set one on the instance.                                     *)
(***************************************************************************)
FusionConfig(prefer_pycaret, random_state) ==
    [prefer_pycaret |-> prefer_pycaret,
     random_state |-> random_state,
     cv_splits |-> 3,
     max_category_cardinality |-> 100,
     warn_on_high_cardinality |-> TRUE,
     n_jobs |-> <<>>]

(***************************************************************************)
(* modeling.py: detect_problem_type.                                       *)
(***************************************************************************)
MaxClasses == 20

Max(x, y) == IF x >= y THEN x ELSE y

Min(x, y) == IF x <= y THEN x ELSE y

is_float_dtype(series) == series.dtype = "float64"

is_integer_dtype(series) == series.dtype \in {"int64", "Int64"}

\* modeling.py:46-58; int(0.2 * n_obs) truncates, here (2 * n_obs) \div 10.
\* the class-count test with < in place of <=
detect_problem_type_strict(target_series) ==
    IF is_float_dtype(target_series) THEN "regression"
    ELSE IF is_integer_dtype(target_series)
    THEN LET n_unique == Cardinality(unique(target_series.vals))
             n_obs == Len(dropna(target_series.vals))
         IN  IF n_unique < MaxClasses /\ n_unique <= Max(2, (2 * n_obs) \div 10)
             THEN "classification" ELSE "regression"
    ELSE "classification"

detect_problem_type(target_series) ==
    IF is_float_dtype(target_series) THEN "regression"
    ELSE IF is_integer_dtype(target_series)
    THEN LET n_unique == Cardinality(unique(target_series.vals))
             n_obs == Len(dropna(target_series.vals))
         IN  IF n_unique <= MaxClasses /\ n_unique <= Max(2, (2 * n_obs) \div 10)
             THEN "classification"
             ELSE "regression"
    ELSE "classification"

(***************************************************************************)
(* modeling.py: the baseline pipeline and the two trainers.                *)
(***************************************************************************)
Ok(x) == [ok |-> TRUE, v |-> x, exc |-> NoExc]
Raise(type, site) == [ok |-> FALSE, v |-> <<>>, exc |-> [type |-> type, site |-> site]]

\* random_state=config.random_state (modeling.py:101, 107, 269, 281): the
\* estimator and the fold splitter seed a generator of their own from the
\* configuration and leave the ambient generator r as it is.
\* an estimator left unseeded: it draws from the process-wide generator
RandomStateAmbient(cfg, r) == [seed |-> r, rng |-> r + 1]

RandomStateOf(cfg, r) == [seed |-> cfg.random_state, rng |-> r]

\* modeling.py:61-117.  Reading config.n_jobs (lines 102, 108) raises
\* AttributeError on an object that has no such attribute.
build_sklearn_pipeline(X, problem_type, cfg, r) ==
    IF cfg.n_jobs = <<>> THEN Raise("AttributeError", "n_jobs")
    ELSE Ok([categorical_cols |-> SelectSeq(X.cols, LAMBDA c : ~is_numeric_dtype(X.col[c])),
             numeric_cols |-> SelectSeq(X.cols, LAMBDA c : is_numeric_dtype(X.col[c])),
             estimator |-> IF problem_type = "classification"
                           THEN "RandomForestClassifier" ELSE "RandomForestRegressor",
             random_state |-> RandomStateOf(cfg, r)])

HasMissing(vals) == \E k \in DOMAIN vals : vals[k] = <<>>

\* scikit-learn's contract for fit(X, y): at least one sample, no missing
\* target value, and a numeric target for a regressor.
FitRejects(X, y, estimator) ==
    \/ X.n = 0
    \/ HasMissing(y.vals)
    \/ estimator = "RandomForestRegressor" /\ ~is_numeric_dtype(y)

\* modeling.py:38-43
is_pycaret_available(e) == e.pycaret_installed

\* features = tuple(X.columns.tolist()) (modeling.py:148, 172)
\* the feature names in sorted order instead of the frame's order
FeaturesSorted(X) == sorted(Columns(X))

FeaturesOf(X) == X.cols

\* modeling.py:140-157
SklearnTrainer_train(X, y, problem_type, cfg, r) ==
    LET built == build_sklearn_pipeline(X, problem_type, cfg, r)
    IN  IF ~built.ok THEN built
        ELSE IF FitRejects(X, y, built.v.estimator) THEN Raise("ValueError", "fit")
        ELSE Ok([trained |-> [problem_type |-> problem_type,
                              model |-> [seed |-> built.v.random_state.seed, fit_y |-> y],
                              backend |-> "sklearn",
                              target |-> y.name,
                              features |-> FeaturesOf(X),
                              extra |-> None],
                 rng |-> built.v.random_state.rng])

\* modeling.py:163-204.  The experiment is PyCaret's; it is taken to reject
\* what the baseline fit rejects and is seeded by session_id.
PyCaretTrainer_train(X, y, problem_type, cfg, r) ==
    IF FitRejects(X, y, IF problem_type = "classification"
                        THEN "RandomForestClassifier" ELSE "RandomForestRegressor")
    THEN Raise("ValueError", "fit")
    ELSE Ok([trained |-> [problem_type |-> problem_type,
                          model |-> [seed |-> cfg.random_state, fit_y |-> y],
                          backend |-> "pycaret",
                          target |-> y.name,
                          features |-> FeaturesOf(X),
                          extra |-> Some({"experiment"})],
             rng |-> r])

\* modeling.py:210-214
\* the preference alone deciding, whether or not pycaret can be imported
get_trainer_prefer_only(cfg, e) ==
    IF cfg.prefer_pycaret THEN "PyCaretTrainer" ELSE "SklearnTrainer"

get_trainer(cfg, e) ==
    IF cfg.prefer_pycaret /\ is_pycaret_available(e) THEN "PyCaretTrainer"
    ELSE "SklearnTrainer"

\* modeling.py:217-225
train_model(X, y, problem_type, cfg, e, r) ==
    IF get_trainer(cfg, e) = "PyCaretTrainer"
    THEN PyCaretTrainer_train(X, y, problem_type, cfg, r)
    ELSE SklearnTrainer_train(X, y, problem_type, cfg, r)

(***************************************************************************)
(* modeling.py: predict.  A fitted forest is a deterministic function of   *)
(* its seed, the target values it was fitted on and the feature row; the   *)
(* row is read by position, so the same cells in another column order are  *)
(* another row.                                                            *)
(***************************************************************************)
RECURSIVE RowCode(_, _, _)
RowCode(X, r, k) ==
    IF k > Len(X.cols) THEN 0
    ELSE LET cell == X.col[X.cols[k]].vals[r]
         IN  k * (IF cell = <<>> THEN 0 ELSE cell[1]) + RowCode(X, r, k + 1)

ForestPredict(fitted, X, r) ==
    LET ys == fitted.fit_y.vals
    IN  ys[((fitted.seed + RowCode(X, r, 1)) % Len(ys)) + 1]

\* the table handed on as it came, columns neither dropped nor reordered
SelectFeaturesAsGiven(model, X) == X

\* X = X[list(model.features)] (modeling.py:235)
SelectFeatures(model, X) == GetItemList(X, model.features)

\* modeling.py:228-247; X[...] raises KeyError for a feature X lacks, and
\* the estimator's predict rejects a table of no rows.
predict(model, X) ==
    LET Xf == SelectFeatures(model, X)
        preds == [r \in 1..Xf.n |-> ForestPredict(model.model, Xf, r)]
        dtype == IF model.problem_type = "classification"
                 THEN (IF model.model.fit_y.dtype = "category" THEN "object"
                       ELSE model.model.fit_y.dtype)
                 ELSE "float64"
        out == IF Xf.n = 0 THEN Raise("ValueError", "predict")
               ELSE Ok([dtype |-> dtype, cats |-> <<>>, vals |-> preds])
    IN  IF ~(Range(model.features) \subseteq Columns(X)) THEN Raise("KeyError", "features")
        ELSE IF model.backend = "pycaret"
        THEN IF ~model.extra.given THEN Raise("ValueError", "extra")
             ELSE IF "experiment" \notin model.extra.v THEN Raise("ValueError", "experiment")
             ELSE out
        ELSE out

(***************************************************************************)
(* modeling.py: cross_validate_metrics.                                    *)
(***************************************************************************)
CountOf(vals, x) == Cardinality({k \in DOMAIN vals : vals[k] = <<x>>})

\* y.dropna().value_counts().min(), 0 for an empty series (modeling.py:261-264)
min_per_class(y) ==
    LET classes == unique(y.vals)
    IN  IF classes = {} THEN 0
        ELSE CHOOSE m \in {CountOf(y.vals, x) : x \in classes} :
                 \A x \in classes : m <= CountOf(y.vals, x)

\* The scoring dictionaries of modeling.py:271-275 and 282-286.  A key is
\* kept as (does it start with "neg_", the text after that prefix).
scoring(problem_type) ==
    IF problem_type = "classification"
    THEN << [neg_prefix |-> FALSE, name |-> "accuracy", scorer |-> "accuracy"],
            [neg_prefix |-> FALSE, name |-> "f1_macro", scorer |-> "f1_macro"],
            [neg_prefix |-> FALSE, name |-> "roc_auc_ovr", scorer |-> "roc_auc_ovr"] >>
    ELSE << [neg_prefix |-> FALSE, name |-> "r2", scorer |-> "r2"],
            [neg_prefix |-> TRUE, name |-> "rmse", scorer |-> "neg_root_mean_squared_error"],
            [neg_prefix |-> FALSE, name |-> "mae", scorer |-> "neg_mean_absolute_error"] >>

\* np.nanmean of a scorer over the folds: <<>> is NaN.  The value depends on
\* the fold shuffle (the seed) and the data; scorers named neg_* are <= 0,
\* and the one-vs-rest AUC is undefined on a single class.
CvMean(scorer, seed, y) ==
    CASE scorer = "roc_auc_ovr" ->
            IF Cardinality(unique(y.vals)) < 2 THEN <<>> ELSE <<1>>
      [] scorer = "neg_root_mean_squared_error" -> <<0 - (1 + (seed % 2))>>
      [] scorer = "neg_mean_absolute_error" -> <<0 - 1>>
      [] scorer = "r2" -> <<seed % 2>>
      [] OTHER -> <<1>>

Negate(cell) == IF cell = <<>> THEN <<>> ELSE <<0 - cell[1]>>

\* scikit-learn's contract for cross_validate: KFold needs n_splits <= the
\* number of rows, StratifiedKFold needs n_splits <= the size of some class,
\* and a target with missing values makes every fit fail.
CvRejects(X, y, problem_type, splits) ==
    \/ HasMissing(y.vals)
    \/ problem_type # "classification" /\ splits > X.n
    \/ problem_type = "classification"
         /\ \A x \in unique(y.vals) : splits > CountOf(y.vals, x)

\* modeling.py:250-300
cross_validate_metrics(X, y, problem_type, cfg, r) ==
    LET built == build_sklearn_pipeline(X, problem_type, cfg, r)
        limit == IF problem_type = "classification" THEN min_per_class(y)
                 ELSE Len(dropna(y.vals))
        splits == Min(cfg.cv_splits, Max(2, limit))
        cv == RandomStateOf(cfg, built.v.random_state.rng)
        sc == scoring(problem_type)
    IN  IF ~built.ok THEN built
        ELSE IF splits < 2 THEN Ok([metrics |-> EmptyMap, rng |-> r])
        ELSE IF CvRejects(X, y, problem_type, splits) THEN Raise("ValueError", "cross_validate")
        ELSE Ok([metrics |->
                    [nm \in {sc[k].name : k \in DOMAIN sc} |->
                        LET e == sc[CHOOSE k \in DOMAIN sc : sc[k].name = nm]
                            mean_val == CvMean(e.scorer, cv.seed + built.v.random_state.seed, y)
                        IN  IF e.neg_prefix THEN Negate(mean_val) ELSE mean_val],
                 rng |-> cv.rng])

(***************************************************************************)
(* fusion.py: categorical alignment.                                       *)
(***************************************************************************)
\* DataFrame.copy(): the result is a new object, not the source.
\* handing back the frame itself instead of a copy
DataFrame_alias(src, fresh) == src

DataFrame_copy(src, fresh) == fresh

Alloc(h, r, tbl) == [x \in DOMAIN h \cup {r} |-> IF x = r THEN tbl ELSE h[x]]

RECURSIVE SortedSeqOf(_)
SortedSeqOf(S) ==
    IF S = {} THEN <<>>
    ELSE LET m == CHOOSE x \in S : \A z \in S : x <= z
         IN  <<m>> \o SortedSeqOf(S \ {m})

\* each side recoded to the vocabulary of its own values only
astype_category_own(series, cats) ==
    [dtype |-> "category", cats |-> SortedSeqOf(unique(series.vals)), vals |-> series.vals]

\* series.astype(CategoricalDtype(categories=cats)): a value outside cats
\* becomes missing.
astype_category(series, cats) ==
    [dtype |-> "category", cats |-> cats,
     vals |-> [k \in DOMAIN series.vals |->
                 IF series.vals[k] # <<>> /\ series.vals[k][1] \in Range(cats)
                 THEN series.vals[k] ELSE <<>>]]

\* the for-loop of fusion.py:55-59 on the tables at references ra and rb
RECURSIVE CoerceLoop(_, _, _, _, _)
CoerceLoop(h, ra, rb, columns, k) ==
    IF k > Len(columns) THEN h
    ELSE LET c == columns[k]
             sa == h[ra].col[c]
             sb == h[rb].col[c]
         IN  IF is_object_or_categorical(sa) \/ is_object_or_categorical(sb)
             THEN LET cats == SortedSeqOf(unique(sa.vals \o sb.vals))
                      h1 == [h EXCEPT ![ra] = SetItem(h[ra], c, astype_category(sa, cats))]
                      h2 == [h1 EXCEPT ![rb] = SetItem(h1[rb], c, astype_category(h1[rb].col[c], cats))]
                  IN  CoerceLoop(h2, ra, rb, columns, k + 1)
             ELSE CoerceLoop(h, ra, rb, columns, k + 1)

\* fusion.py:50-60
_coerce_categorical_alignment(h, a, b, columns) ==
    LET a_aligned == DataFrame_copy(a, "a_feat")
        b_aligned == DataFrame_copy(b, "b_feat")
        h1 == Alloc(Alloc(h, a_aligned, h[a]), b_aligned, h[b])
    IN  [heap |-> CoerceLoop(h1, a_aligned, b_aligned, columns, 1),
         a |-> a_aligned, b |-> b_aligned]

(***************************************************************************)
(* fusion.py: one pass of the per-target loop body (lines 121-130 for the  *)
(* direction A -> B, 136-144 for B -> A).  src holds the target column,    *)
(* feat_train and feat_pred are the aligned feature tables, out is the     *)
(* enriched copy the prediction is attached to.                            *)
(***************************************************************************)
Call(fn, target) == [fn |-> fn, target |-> target]

StepFailed(e, log) ==
    [ok |-> FALSE, exc |-> e, calls |-> log, heap |-> <<>>, model |-> <<>>,
     metrics |-> <<>>, rng |-> 0]

\* (problem_type_map or {}).get(target) or detect_problem_type(y)
ProblemOf(a, target, y) ==
    IF a.problem_type_map.given /\ target \in DOMAIN a.problem_type_map.v
    THEN a.problem_type_map.v[target]
    ELSE detect_problem_type(y)

\* col_name = target if target not in out.columns else f"{target}_pred"
\* the prediction always stored under the target's own name
PredColumnOverwrite(out_df, target) == target

PredColumn(out_df, target) ==
    IF target \notin Columns(out_df) THEN target ELSE target \o "_pred"

TargetStep(h, src, feat_train, feat_pred, out, target, a, cfg, e, r, log) ==
    IF target \notin Columns(h[src])
    THEN StepFailed([type |-> "KeyError", site |-> "target"], log)
    ELSE
    LET y == GetItem(h[src], target)
        problem == ProblemOf(a, target, y)
        fit == train_model(h[feat_train], y, problem, cfg, e, r)
        log1 == Append(log, Call("train_model", target))
        cv == cross_validate_metrics(h[feat_train], y, problem, cfg, fit.v.rng)
        log2 == Append(log1, Call("cross_validate_metrics", target))
        preds == predict(fit.v.trained, h[feat_pred])
        log3 == Append(log2, Call("predict", target))
        col_name == PredColumn(h[out], target)
    IN  IF ~fit.ok THEN StepFailed(fit.exc, log1)
        ELSE IF ~cv.ok THEN StepFailed(cv.exc, log2)
        ELSE IF ~preds.ok THEN StepFailed(preds.exc, log3)
        ELSE [ok |-> TRUE, exc |-> NoExc, calls |-> log3,
              heap |-> [h EXCEPT ![out] = SetItem(h[out], col_name, preds.v)],
              model |-> fit.v.trained, metrics |-> cv.v.metrics, rng |-> cv.v.rng]

\* d[key] = value on a dict
DictSet(d, key, value) ==
    [x \in DOMAIN d \cup {key} |-> IF x = key THEN value ELSE d[x]]

(***************************************************************************)
(* fusion.py:146-151: the fused table.                                     *)
(***************************************************************************)
\* a column the frame lacks filled with zeros instead of missing values
AllZero(n) == [dtype |-> "float64", cats |-> <<>>, vals |-> [k \in 1..n |-> <<0>>]]

AllMissing(n) == [dtype |-> "float64", cats |-> <<>>, vals |-> [k \in 1..n |-> <<>>]]

\* df.reindex(columns=cols): a new table; a column df lacks is all missing.
reindex(df, cols) ==
    [n |-> df.n, cols |-> cols,
     col |-> [c \in Range(cols) |-> IF c \in Columns(df) THEN df.col[c] ELSE AllMissing(df.n)]]

\* the dtype pandas gives the concatenation of two columns
ConcatDType(sa, sb) ==
    IF sa.dtype = sb.dtype /\ sa.cats = sb.cats THEN sa.dtype
    ELSE IF is_numeric_dtype(sa) /\ is_numeric_dtype(sb) THEN "float64"
    ELSE "object"

\* pd.concat([x, y], ignore_index=True) of two tables with the same columns
concat(x, y) ==
    [n |-> x.n + y.n, cols |-> x.cols,
     col |-> [c \in Range(x.cols) |->
                [dtype |-> ConcatDType(x.col[c], y.col[c]),
                 cats |-> IF x.col[c].cats = y.col[c].cats THEN x.col[c].cats ELSE <<>>,
                 vals |-> x.col[c].vals \o y.col[c].vals]]]

FusedTable(ap, bp) ==
    LET all_columns == sorted(Columns(ap) \cup Columns(bp))
    IN  concat(reindex(ap, all_columns), reindex(bp, all_columns))

(***************************************************************************)
(* The inputs of a call.                                                   *)
(***************************************************************************)
InputNames == {"f", "t", "t_pred", "u"}

\* where a column name occurs: in neither table, in A only, in B only, in both
Layouts ==
    {l \in [InputNames -> {"none", "a", "b", "both"}] :
        /\ l["f"] \in {"none", "a", "both"}
        /\ l["t"] \in {"none", "a", "both"}
        /\ l["t_pred"] \in {"none", "b"}
        /\ l["u"] \in {"none", "b", "both"}}

DTypeOf(c) == CASE c = "f" -> "object" [] c = "t" -> "int64" [] OTHER -> "float64"

\* the cell of column c in row r; an int64 column holds no missing value
CellOf(side, c, r) ==
    CASE c = "f" -> IF side = "a" THEN <<1 + (r % 2)>>
                    ELSE IF r = 2 THEN <<>> ELSE <<3>>
      [] c = "t" -> IF side = "a" THEN (IF r <= 2 THEN <<1>> ELSE <<0>>)
                    ELSE <<r % 2>>
      [] c = "t_pred" -> IF side = "a" THEN <<40 + r>>
                         ELSE IF r = 1 THEN <<>> ELSE <<30 + r>>
      [] OTHER -> IF side = "a" THEN <<20 + r>> ELSE <<10 + r>>

MakeTable(side, layout, n) ==
    LET names == {c \in InputNames : layout[c] \in {side, "both"}}
    IN  [n |-> n,
         cols |-> IF side = "a" THEN sorted(names) ELSE Reverse(sorted(names)),
         col |-> [c \in names |->
                    [dtype |-> DTypeOf(c), cats |-> <<>>,
                     vals |-> [r \in 1..n |-> CellOf(side, c, r)]]]]

OverlapArgs == {None, Some(<<"t", "f">>), Some(<<"u">>)}

\* targets_from_a with the problem_type_map passed along with it
TargetsAArgs ==
    { <<None, None>>, <<Some(<<>>), None>>, <<Some(<<"t">>), None>>,
      <<Some(<<"t">>), Some([c \in {"t"} |-> "regression"])>> }

TargetsBArgs == {None, Some(<<>>), Some(<<"u">>)}

\* a FusionConfig on which the caller has set an n_jobs attribute
ConfigWithNJobs(prefer_pycaret, random_state, cv_splits) ==
    [FusionConfig(prefer_pycaret, random_state) EXCEPT
        !.cv_splits = cv_splits, !.max_category_cardinality = 2, !.n_jobs = <<1>>]

ConfigArgs(seeds) ==
    {None} \cup {Some(ConfigWithNJobs(p, s, k)) : p \in BOOLEAN, s \in seeds, k \in 1..2}

ArgSets(seeds) ==
    [overlap_features : OverlapArgs,
     targets_a : TargetsAArgs,
     targets_from_b : TargetsBArgs,
     prefer_pycaret : BOOLEAN,
     random_state : seeds,
     config : ConfigArgs(seeds)]

ArgsOf(x) ==
    [overlap_features |-> x.overlap_features,
     targets_from_a |-> x.targets_a[1],
     targets_from_b |-> x.targets_from_b,
     problem_type_map |-> x.targets_a[2],
     prefer_pycaret |-> x.prefer_pycaret,
     random_state |-> x.random_state,
     config |-> x.config]

\* no request is being served, the job store is empty, and no stand-alone
\* cross_validate_metrics call is under way
NoRequest == [return_parts |-> None, row_limit |-> None,
              columns_include |-> None, columns_exclude |-> None]

NoResponse == [status_code |-> 0, body |-> <<>>]

NoAnswer == [job_id |-> 0, status_code |-> 0, status |-> "none", run_ended |-> FALSE]

HttpIdle == req = NoRequest /\ response = NoResponse

JobsIdle ==
    /\ _JOB_STORE = <<>>
    /\ _JOB_TIMESTAMPS = <<>>
    /\ clock = 0
    /\ tasks = <<>>
    /\ answer = NoAnswer

CvIdle == cv_args = <<>> /\ cv_result = <<>>

PredictIdle == predict_args = <<>> /\ predict_result = <<>>

LimiterIdle == rate_limiter = <<>> /\ decisions = <<>>

AppIdle == environ = <<>> /\ app = <<>>

SideIdle == PredictIdle /\ LimiterIdle /\ AppIdle

\* the locals of fuse_datasets before the call has run
LocalsAtEntry ==
    /\ config = <<>>
    /\ overlap_features = <<>>
    /\ targets_from_a = <<>>
    /\ targets_from_b = <<>>
    /\ a_feat = NoRef /\ b_feat = NoRef /\ a_pred = NoRef /\ b_pred = NoRef
    /\ idx = 0
    /\ models_a_to_b = EmptyMap /\ metrics_a_to_b = EmptyMap
    /\ models_b_to_a = EmptyMap /\ metrics_b_to_a = EmptyMap
    /\ fused = NoTable
    /\ calls = <<>>
    /\ warnings = <<>>
    /\ exc = NoExc

NoSeries == [name |-> "", dtype |-> "none", cats |-> <<>>, vals |-> <<>>]

\* a call of fuse_datasets about to start, its inputs drawn from the sets given
InitFrom(layouts, arg_set) ==
    /\ HttpIdle /\ JobsIdle /\ CvIdle /\ SideIdle
    /\ \E l \in layouts, na \in 0..MaxRows, nb \in 0..MaxRows :
          /\ orig_a = MakeTable("a", l, na)
          /\ orig_b = MakeTable("b", l, nb)
    /\ heap = [r \in {"df_a", "df_b"} |-> IF r = "df_a" THEN orig_a ELSE orig_b]
    /\ \E x \in arg_set :
          /\ (x.config.given => x.prefer_pycaret)  \* ignored when config is passed
          /\ args = ArgsOf(x)
    /\ env \in [pycaret_installed : BOOLEAN]
    /\ rng = 0
    /\ LocalsAtEntry
    /\ pc = "start"
    /\ call_no = 1
    /\ first = <<>>
    /\ y_series = NoSeries
    /\ detected = "none"

Init == InitFrom(Layouts, ArgSets({42}))

(***************************************************************************)
(* fuse_datasets, step by step.                                            *)
(***************************************************************************)
df_a == heap["df_a"]
df_b == heap["df_b"]

ValueError(site) == [type |-> "ValueError", site |-> site]

\* fusion.py:76-80
EffectiveConfig(a) ==
    IF a.config.given THEN a.config.v
    ELSE FusionConfig(a.prefer_pycaret, a.random_state)

\* the emptiness check of the overlap left out
OverlapNeverEmpty(overlap) == FALSE

\* fusion.py:88
OverlapIsEmpty(overlap) == Len(overlap) = 0

\* fusion.py:96
NoTargets(ta, tb) == Len(ta) = 0 /\ Len(tb) = 0

\* fusion.py:75-89: the effective config, the overlap features, and the
\* check that there are some
ResolveOverlap ==
    /\ UNCHANGED << http_vars, job_vars, cv_vars, side_vars >>
    /\ pc = "start"
    /\ config' = EffectiveConfig(args)
    /\ overlap_features' = ResolveOverlapFeatures(df_a, df_b, args)
    /\ IF OverlapIsEmpty(overlap_features')
       THEN pc' = "raised" /\ exc' = ValueError("overlap")
       ELSE pc' = "targets" /\ exc' = exc
    /\ UNCHANGED << heap, orig_a, orig_b, args, env, rng, targets_from_a,
                    targets_from_b, a_feat, b_feat, a_pred, b_pred, idx,
                    models_a_to_b, metrics_a_to_b, models_b_to_a, metrics_b_to_a,
                    fused, calls, warnings, call_no, first, y_series, detected >>

\* fusion.py:91-97
ResolveTargets ==
    /\ UNCHANGED << http_vars, job_vars, cv_vars, side_vars >>
    /\ pc = "targets"
    /\ targets_from_a' = ResolveTargetsA(df_a, df_b, args)
    /\ targets_from_b' = ResolveTargetsB(df_a, df_b, args)
    /\ IF NoTargets(targets_from_a', targets_from_b')
       THEN pc' = "raised" /\ exc' = ValueError("targets")
       ELSE pc' = "align" /\ exc' = exc
    /\ UNCHANGED << heap, orig_a, orig_b, args, env, rng, config, overlap_features,
                    a_feat, b_feat, a_pred, b_pred, idx,
                    models_a_to_b, metrics_a_to_b, models_b_to_a, metrics_b_to_a,
                    fused, calls, warnings, call_no, first, y_series, detected >>

\* fusion.py:99-102: df_a[overlap_features] and df_b[overlap_features] are
\* new tables, which _coerce_categorical_alignment copies and recodes
Align ==
    /\ UNCHANGED << http_vars, job_vars, cv_vars, side_vars >>
    /\ pc = "align"
    /\ LET h1 == Alloc(Alloc(heap, "a_sel", GetItemList(df_a, overlap_features)),
                       "b_sel", GetItemList(df_b, overlap_features))
           al == _coerce_categorical_alignment(h1, "a_sel", "b_sel", overlap_features)
       IN  /\ heap' = al.heap
           /\ a_feat' = al.a
           /\ b_feat' = al.b
    /\ pc' = "cardinality"
    /\ UNCHANGED << orig_a, orig_b, args, env, rng, config, overlap_features,
                    targets_from_a, targets_from_b, a_pred, b_pred, idx,
                    models_a_to_b, metrics_a_to_b, models_b_to_a, metrics_b_to_a,
                    fused, calls, warnings, exc, call_no, first, y_series, detected >>

\* the cardinality of one overlap column over both tables (fusion.py:108)
Cardinality_of(h, ra, rb, col) ==
    Cardinality(unique(h[ra].col[col].vals \o h[rb].col[col].vals))

\* the warning given from the threshold itself on
HighCardinalityColumnsFromThreshold(h, ra, rb, cfg, columns) ==
    IF cfg.warn_on_high_cardinality
    THEN SelectSeq(columns,
            LAMBDA col : /\ ~is_numeric_dtype(h[ra].col[col])
                         /\ Cardinality_of(h, ra, rb, col) >= cfg.max_category_cardinality)
    ELSE <<>>

\* fusion.py:104-115
HighCardinalityColumns(h, ra, rb, cfg, columns) ==
    IF cfg.warn_on_high_cardinality
    THEN SelectSeq(columns,
            LAMBDA col : /\ ~is_numeric_dtype(h[ra].col[col])
                         /\ Cardinality_of(h, ra, rb, col) > cfg.max_category_cardinality)
    ELSE <<>>

CardinalityCheck ==
    /\ UNCHANGED << http_vars, job_vars, cv_vars, side_vars >>
    /\ pc = "cardinality"
    /\ warnings' = warnings \o HighCardinalityColumns(heap, a_feat, b_feat, config, overlap_features)
    /\ pc' = "begin_a_to_b"
    /\ UNCHANGED << heap, orig_a, orig_b, args, env, rng, config, overlap_features,
                    targets_from_a, targets_from_b, a_feat, b_feat, a_pred, b_pred, idx,
                    models_a_to_b, metrics_a_to_b, models_b_to_a, metrics_b_to_a,
                    fused, calls, exc, call_no, first, y_series, detected >>

\* fusion.py:117-120
BeginAToB ==
    /\ UNCHANGED << http_vars, job_vars, cv_vars, side_vars >>
    /\ pc = "begin_a_to_b"
    /\ b_pred' = DataFrame_copy("df_b", "b_pred")
    /\ heap' = Alloc(heap, b_pred', df_b)
    /\ models_a_to_b' = EmptyMap
    /\ metrics_a_to_b' = EmptyMap
    /\ idx' = 1
    /\ pc' = "a_to_b"
    /\ UNCHANGED << orig_a, orig_b, args, env, rng, config, overlap_features,
                    targets_from_a, targets_from_b, a_feat, b_feat, a_pred,
                    models_b_to_a, metrics_b_to_a,
                    fused, calls, warnings, exc, call_no, first, y_series, detected >>

\* the error of a target logged and the result returned all the same
OnFailureReturn(position) == "done"

\* no try/except around the loop bodies (fusion.py:121-130, 136-144): an
\* exception raised for a target leaves fuse_datasets
OnFailure(position) == "raised"

\* fusion.py:121-130, one target of A
TrainAToB ==
    /\ UNCHANGED << http_vars, job_vars, cv_vars, side_vars >>
    /\ pc = "a_to_b"
    /\ idx <= Len(targets_from_a)
    /\ LET target == targets_from_a[idx]
           step == TargetStep(heap, "df_a", a_feat, b_feat, b_pred, target,
                              args, config, env, rng, calls)
       IN  /\ calls' = step.calls
           /\ IF step.ok
              THEN /\ heap' = step.heap
                   /\ models_a_to_b' = DictSet(models_a_to_b, target, step.model)
                   /\ metrics_a_to_b' = DictSet(metrics_a_to_b, target, step.metrics)
                   /\ rng' = step.rng
                   /\ idx' = idx + 1
                   /\ UNCHANGED << pc, exc >>
              ELSE /\ pc' = OnFailure(pc)
                   /\ exc' = step.exc
                   /\ UNCHANGED << heap, models_a_to_b, metrics_a_to_b, rng, idx >>
    /\ UNCHANGED << orig_a, orig_b, args, env, config, overlap_features,
                    targets_from_a, targets_from_b, a_feat, b_feat, a_pred, b_pred,
                    models_b_to_a, metrics_b_to_a,
                    fused, warnings, call_no, first, y_series, detected >>

\* fusion.py:132-135, once the loop over A's targets has ended
BeginBToA ==
    /\ UNCHANGED << http_vars, job_vars, cv_vars, side_vars >>
    /\ pc = "a_to_b"
    /\ idx > Len(targets_from_a)
    /\ a_pred' = DataFrame_copy("df_a", "a_pred")
    /\ heap' = Alloc(heap, a_pred', df_a)
    /\ models_b_to_a' = EmptyMap
    /\ metrics_b_to_a' = EmptyMap
    /\ idx' = 1
    /\ pc' = "b_to_a"
    /\ UNCHANGED << orig_a, orig_b, args, env, rng, config, overlap_features,
                    targets_from_a, targets_from_b, a_feat, b_feat, b_pred,
                    models_a_to_b, metrics_a_to_b,
                    fused, calls, warnings, exc, call_no, first, y_series, detected >>

\* fusion.py:136-144, one target of B
TrainBToA ==
    /\ UNCHANGED << http_vars, job_vars, cv_vars, side_vars >>
    /\ pc = "b_to_a"
    /\ idx <= Len(targets_from_b)
    /\ LET target == targets_from_b[idx]
           step == TargetStep(heap, "df_b", b_feat, a_feat, a_pred, target,
                              args, config, env, rng, calls)
       IN  /\ calls' = step.calls
           /\ IF step.ok
              THEN /\ heap' = step.heap
                   /\ models_b_to_a' = DictSet(models_b_to_a, target, step.model)
                   /\ metrics_b_to_a' = DictSet(metrics_b_to_a, target, step.metrics)
                   /\ rng' = step.rng
                   /\ idx' = idx + 1
                   /\ UNCHANGED << pc, exc >>
              ELSE /\ pc' = OnFailure(pc)
                   /\ exc' = step.exc
                   /\ UNCHANGED << heap, models_b_to_a, metrics_b_to_a, rng, idx >>
    /\ UNCHANGED << orig_a, orig_b, args, env, config, overlap_features,
                    targets_from_a, targets_from_b, a_feat, b_feat, a_pred, b_pred,
                    models_a_to_b, metrics_a_to_b,
                    fused, warnings, call_no, first, y_series, detected >>

\* fusion.py:146-161: the fused table and the FusionResult
Assemble ==
    /\ UNCHANGED << http_vars, job_vars, cv_vars, side_vars >>
    /\ pc = "b_to_a"
    /\ idx > Len(targets_from_b)
    /\ fused' = FusedTable(heap[a_pred], heap[b_pred])
    /\ pc' = "done"
    /\ UNCHANGED << heap, orig_a, orig_b, args, env, rng, config, overlap_features,
                    targets_from_a, targets_from_b, a_feat, b_feat, a_pred, b_pred, idx,
                    models_a_to_b, metrics_a_to_b, models_b_to_a, metrics_b_to_a,
                    calls, warnings, exc, call_no, first, y_series, detected >>

\* the FusionResult returned at fusion.py:153-161
a_enriched == heap[a_pred]
b_enriched == heap[b_pred]

\* what the caller gets from the call: the FusionResult's tables and metric
\* maps, or the exception
Outcome ==
    IF pc = "done"
    THEN [pc |-> pc, exc |-> exc, a_enriched |-> a_enriched, b_enriched |-> b_enriched,
          fused |-> fused, metrics_a_to_b |-> metrics_a_to_b,
          metrics_b_to_a |-> metrics_b_to_a]
    ELSE [pc |-> pc, exc |-> exc, a_enriched |-> NoTable, b_enriched |-> NoTable,
          fused |-> NoTable, metrics_a_to_b |-> EmptyMap, metrics_b_to_a |-> EmptyMap]

\* the caller calls fuse_datasets once more, with the same objects and
\* arguments, in the same process
SecondCall ==
    /\ UNCHANGED << http_vars, job_vars, cv_vars, side_vars >>
    /\ call_no = 1
    /\ pc \in {"done", "raised"}
    /\ first' = Outcome
    /\ call_no' = 2
    /\ heap' = [r \in {"df_a", "df_b"} |-> heap[r]]
    /\ config' = <<>>
    /\ overlap_features' = <<>>
    /\ targets_from_a' = <<>>
    /\ targets_from_b' = <<>>
    /\ a_feat' = NoRef /\ b_feat' = NoRef /\ a_pred' = NoRef /\ b_pred' = NoRef
    /\ idx' = 0
    /\ models_a_to_b' = EmptyMap /\ metrics_a_to_b' = EmptyMap
    /\ models_b_to_a' = EmptyMap /\ metrics_b_to_a' = EmptyMap
    /\ fused' = NoTable
    /\ calls' = <<>>
    /\ warnings' = <<>>
    /\ exc' = NoExc
    /\ pc' = "start"
    /\ UNCHANGED << orig_a, orig_b, args, env, rng, y_series, detected >>

Next ==
    \/ ResolveOverlap
    \/ ResolveTargets
    \/ Align
    \/ CardinalityCheck
    \/ BeginAToB
    \/ TrainAToB
    \/ BeginBToA
    \/ TrainBToA
    \/ Assemble

Spec == Init /\ [][Next]_vars

(***************************************************************************)
(* Two calls in a row with the same inputs.                                *)
(***************************************************************************)
TwiceLayouts == {l \in Layouts : l["f"] = "both"}

TwiceArgs == {x \in ArgSets({7, 42}) :
                 /\ ~x.targets_from_b.given
                 /\ (x.config.given => x.random_state = 42)}

InitTwice == InitFrom(TwiceLayouts, TwiceArgs)

NextTwice == Next \/ SecondCall

SpecTwice == InitTwice /\ [][NextTwice]_vars

(***************************************************************************)
(* detect_problem_type on its own, on columns of up to DetectMaxObs cells  *)
(* with up to DetectMaxUnique distinct values.                             *)
(***************************************************************************)
DetectDTypes == {"int64", "Int64", "float64", "object", "category", "bool"}

\* n cells cycling through k distinct values, then `missing` missing cells
\* (a numpy int64 or bool column cannot hold a missing value)
MakeSeries(dtype, n, k, missing) ==
    [name |-> "y", dtype |-> dtype, cats |-> <<>>,
     vals |-> [r \in 1..n |-> <<r % k>>] \o [r \in 1..missing |-> <<>>]]

InitDetect ==
    /\ HttpIdle /\ JobsIdle /\ CvIdle /\ SideIdle
    /\ \E dtype \in DetectDTypes, n \in 0..DetectMaxObs, k \in 1..DetectMaxUnique,
          missing \in 0..1 :
          /\ (dtype \in {"int64", "bool"} => missing = 0)
          /\ (n = 0 => k = 1)
          /\ y_series = MakeSeries(dtype, n, k, missing)
    /\ detected = "none"
    /\ pc = "detect_problem_type"
    /\ orig_a = NoTable /\ orig_b = NoTable
    /\ heap = [r \in {"df_a", "df_b"} |-> NoTable]
    /\ args = ArgsOf(CHOOSE x \in ArgSets({42}) : TRUE)
    /\ env = [pycaret_installed |-> FALSE]
    /\ rng = 0
    /\ LocalsAtEntry
    /\ call_no = 1
    /\ first = <<>>

\* modeling.py:46-58, called on y_series
DetectProblemType ==
    /\ UNCHANGED << http_vars, job_vars, cv_vars, side_vars >>
    /\ pc = "detect_problem_type"
    /\ detected' = detect_problem_type(y_series)
    /\ pc' = "detected"
    /\ UNCHANGED << heap, orig_a, orig_b, args, env, rng, config, overlap_features,
                    targets_from_a, targets_from_b, a_feat, b_feat, a_pred, b_pred, idx,
                    models_a_to_b, metrics_a_to_b, models_b_to_a, metrics_b_to_a,
                    fused, calls, warnings, exc, call_no, first, y_series >>

NextDetect == DetectProblemType

SpecDetect == InitDetect /\ [][NextDetect]_vars


(***************************************************************************)
(* Serving a fuse request: api.py:60-132 (the same steps are               *)
(* service/fusion_service.py:33-88 behind web/routers/fusion.py:51-57).    *)
(* The handler builds the two frames and a FusionConfig from the request,  *)
(* calls fuse_datasets, and turns the FusionResult or the exception into   *)
(* the response.                                                           *)
(***************************************************************************)
\* float values that are not finite: NaN is the missing cell <<>>, and an
\* infinity is written as a numerator over a zero denominator
NaN == <<>>

PosInf == <<1, 0>>

NegInf == <<0 - 1, 0>>

\* Python's == on floats: NaN equals nothing, itself included
PyEq(x, y) == x # NaN /\ y # NaN /\ x = y

\* `if xs:` on an Optional list: neither None nor empty
Truthy(opt) == opt.given /\ Len(opt.v) > 0

\* the first n rows kept whatever the limit
head_all(df, n) == df

\* DataFrame.head(n)
head(df, n) ==
    [n |-> Min(n, df.n), cols |-> df.cols,
     col |-> [c \in Columns(df) |->
                [dtype |-> df.col[c].dtype, cats |-> df.col[c].cats,
                 vals |-> SubSeq(df.col[c].vals, 1, Min(n, df.n))]]]

\* DataFrame.drop(columns=names)
drop(df, names) == GetItemList(df, SelectSeq(df.cols, LAMBDA c : c \notin names))

\* service/fusion_service.py:13-30 (api.py:95-107)
_maybe_filter_dataframe(df, row_limit, columns_include, columns_exclude) ==
    LET cols == IF Truthy(columns_include)
                THEN SelectSeq(columns_include.v, LAMBDA c : c \in Columns(df))
                ELSE <<>>
        out1 == IF Len(cols) > 0 THEN GetItemList(df, cols) ELSE df
        drop_cols == IF Truthy(columns_exclude)
                     THEN {c \in Range(columns_exclude.v) : c \in Columns(out1)}
                     ELSE {}
        out2 == IF drop_cols # {} THEN drop(out1, drop_cols) ELSE out1
    IN  IF row_limit.given THEN head(out2, row_limit.v) ELSE out2

\* DataFrame.to_dict(orient="records"): one dict per row, keyed by column
to_dict_records(df) == [r \in 1..df.n |-> [c \in Columns(df) |-> df.col[c].vals[r]]]

\* service/fusion_service.py:80-84 (api.py:117-121): `if mv == mv`
_clean(d) ==
    [k \in DOMAIN d |->
        [mk \in {x \in DOMAIN d[k] : PyEq(d[k][x], d[k][x])} |-> d[k][mk]]]

AllParts == <<"fused", "a_enriched", "b_enriched", "metrics">>

\* set(req.return_parts or [...]) (fusion_service.py:64, api.py:93)
wanted(rq) == IF Truthy(rq.return_parts) THEN Range(rq.return_parts.v) ELSE Range(AllParts)

Table(rq, df) ==
    Some(to_dict_records(_maybe_filter_dataframe(
             df, rq.row_limit, rq.columns_include, rq.columns_exclude)))

\* fusion_service.py:66-88 (api.py:109-124): the FuseResponse of a result
FuseResponse(result, rq) ==
    [fused |-> IF "fused" \in wanted(rq) THEN Table(rq, result.fused) ELSE None,
     a_enriched |-> IF "a_enriched" \in wanted(rq) THEN Table(rq, result.a_enriched) ELSE None,
     b_enriched |-> IF "b_enriched" \in wanted(rq) THEN Table(rq, result.b_enriched) ELSE None,
     metrics_a_to_b |-> IF "metrics" \in wanted(rq)
                        THEN Some(_clean(result.metrics_a_to_b)) ELSE None,
     metrics_b_to_a |-> IF "metrics" \in wanted(rq)
                        THEN Some(_clean(result.metrics_b_to_a)) ELSE None]

\* the classes an exception of the given class is an instance of
\* (errors.py:1-14 and Python's built-in hierarchy)
Ancestors(type) ==
    CASE type \in {"OverlapError", "TargetsError", "ConfigurationError"} ->
            {type, "DataFusionError", "ValueError", "Exception"}
      [] type = "DataFusionError" -> {type, "ValueError", "Exception"}
      [] OTHER -> {type, "Exception"}

isinstance(e, cls) == cls \in Ancestors(e.type)

\* api.py:125-132: the except clauses, in order
StatusOf(e) ==
    IF isinstance(e, "OverlapError") THEN 400
    ELSE IF isinstance(e, "TargetsError") THEN 400
    ELSE IF isinstance(e, "ConfigurationError") THEN 422
    ELSE 500

\* api.py:92-132: the response to the request once fuse_datasets has
\* returned or raised
fuse ==
    /\ pc \in {"done", "raised"}
    /\ response' = IF pc = "done"
                   THEN [status_code |-> 200, body |-> FuseResponse(Outcome, req)]
                   ELSE [status_code |-> StatusOf(exc), body |-> <<>>]
    /\ pc' = "responded"
    /\ UNCHANGED << heap, orig_a, orig_b, args, env, rng, config, overlap_features,
                    targets_from_a, targets_from_b, a_feat, b_feat, a_pred, b_pred, idx,
                    models_a_to_b, metrics_a_to_b, models_b_to_a, metrics_b_to_a,
                    fused, calls, warnings, exc, call_no, first, y_series, detected >>
    /\ UNCHANGED << req, job_vars, cv_vars, side_vars >>

\* pd.DataFrame.from_records(rows): no rows give a frame without columns
from_records(side, layout, n) == IF n = 0 THEN NoTable ELSE MakeTable(side, layout, n)

\* api.py:66-80: the FusionConfig the handler builds from the request; no
\* request field sets an n_jobs attribute
RequestConfig(prefer_pycaret, random_state, cv_splits) ==
    [FusionConfig(prefer_pycaret, random_state) EXCEPT !.cv_splits = cv_splits]

ReturnPartsArgs ==
    {None, Some(<<>>), Some(<<"fused">>), Some(<<"metrics", "a_enriched">>), Some(<<"other">>)}

RowLimitArgs == {None} \cup {Some(n) : n \in 0..(MaxRows + 1)}

ColumnsIncludeArgs == {None, Some(<<>>), Some(<<"f">>), Some(<<"u", "f">>), Some(<<"zz">>)}

ColumnsExcludeArgs == {None, Some(<<"f">>), Some(<<"t", "zz">>)}

ShapingArgs ==
    [return_parts : ReturnPartsArgs, row_limit : RowLimitArgs,
     columns_include : ColumnsIncludeArgs, columns_exclude : ColumnsExcludeArgs]

\* a request as the handler has read it (api.py:63-80): the frames, the
\* config and the lists handed on to fuse_datasets
InitServe ==
    /\ JobsIdle /\ CvIdle /\ SideIdle
    /\ \E l \in Layouts, na \in 0..MaxRows, nb \in 0..MaxRows :
          /\ orig_a = from_records("a", l, na)
          /\ orig_b = from_records("b", l, nb)
    /\ heap = [r \in {"df_a", "df_b"} |-> IF r = "df_a" THEN orig_a ELSE orig_b]
    /\ \E ov \in OverlapArgs, ta \in {None, Some(<<>>), Some(<<"t">>)}, tb \in TargetsBArgs,
          p \in BOOLEAN, k \in 1..3 :
          args = [overlap_features |-> ov, targets_from_a |-> ta, targets_from_b |-> tb,
                  problem_type_map |-> None, prefer_pycaret |-> p, random_state |-> 42,
                  config |-> Some(RequestConfig(p, 42, k))]
    /\ req \in {x \in ShapingArgs : ~x.columns_include.given /\ ~x.columns_exclude.given
                                     /\ ~x.row_limit.given
                                     /\ x.return_parts \in {None, Some(<<"fused">>)}}
    /\ response = NoResponse
    /\ env \in [pycaret_installed : BOOLEAN]
    /\ rng = 0
    /\ LocalsAtEntry
    /\ pc = "start"
    /\ call_no = 1
    /\ first = <<>>
    /\ y_series = NoSeries
    /\ detected = "none"

\* Assemble is no step of a served request: the config the handler builds
\* has no n_jobs attribute, so every target's step raises.
NextServe ==
    \/ ResolveOverlap
    \/ ResolveTargets
    \/ Align
    \/ CardinalityCheck
    \/ BeginAToB
    \/ TrainAToB
    \/ BeginBToA
    \/ TrainBToA
    \/ fuse

SpecServe == InitServe /\ [][NextServe]_vars

(***************************************************************************)
(* The response shaping on its own (api.py:92-124), applied to results of  *)
(* a fusion of A = {f, t} and B = {f, u} with metric values of every kind. *)
(***************************************************************************)
ShapeLayout == [c \in InputNames |->
                   CASE c = "f" -> "both" [] c = "t" -> "a" [] c = "u" -> "b" [] OTHER -> "none"]

MetricValues == {<<1>>, NaN, PosInf, NegInf}

RegressionMetricMaps ==
    {EmptyMap} \cup
    {[mk \in {"r2", "rmse", "mae"} |-> IF mk = "r2" THEN v ELSE IF mk = "rmse" THEN w ELSE <<1>>] :
        v \in {<<1>>, NaN}, w \in MetricValues}

InitShape ==
    /\ JobsIdle /\ CvIdle /\ SideIdle
    /\ \E na \in 1..MaxRows, nb \in 1..MaxRows :
          /\ orig_a = MakeTable("a", ShapeLayout, na)
          /\ orig_b = MakeTable("b", ShapeLayout, nb)
    /\ heap = [r \in {"df_a", "df_b", "a_pred", "b_pred"} |->
                 CASE r = "df_a" -> orig_a
                   [] r = "df_b" -> orig_b
                   [] r = "a_pred" ->
                        SetItem(orig_a, "u", [dtype |-> "float64", cats |-> <<>>,
                                              vals |-> [k \in 1..orig_a.n |-> <<11>>]])
                   [] r = "b_pred" ->
                        SetItem(orig_b, "t", [dtype |-> "int64", cats |-> <<>>,
                                              vals |-> [k \in 1..orig_b.n |-> <<1>>]])]
    /\ a_pred = "a_pred" /\ b_pred = "b_pred"
    /\ a_feat = NoRef /\ b_feat = NoRef
    /\ fused = FusedTable(heap["a_pred"], heap["b_pred"])
    /\ args = [overlap_features |-> None, targets_from_a |-> None, targets_from_b |-> None,
               problem_type_map |-> None, prefer_pycaret |-> FALSE, random_state |-> 42,
               config |-> Some(RequestConfig(FALSE, 42, 3))]
    /\ config = RequestConfig(FALSE, 42, 3)
    /\ overlap_features = <<"f">>
    /\ targets_from_a = <<"t">>
    /\ targets_from_b = <<"u">>
    /\ idx = 2
    /\ models_a_to_b = EmptyMap /\ models_b_to_a = EmptyMap
    /\ metrics_a_to_b \in {[k \in {"t"} |-> m] :
                              m \in {EmptyMap, [mk \in {"accuracy", "roc_auc_ovr"} |->
                                                   IF mk = "accuracy" THEN <<1>> ELSE NaN]}}
    /\ metrics_b_to_a \in {[k \in {"u"} |-> m] : m \in RegressionMetricMaps}
    /\ calls = <<>>
    /\ warnings = <<>>
    /\ exc = NoExc
    /\ pc = "done"
    /\ req \in ShapingArgs
    /\ response = NoResponse
    /\ env = [pycaret_installed |-> FALSE]
    /\ rng = 0
    /\ call_no = 1
    /\ first = <<>>
    /\ y_series = NoSeries
    /\ detected = "none"

NextShape == fuse

SpecShape == InitShape /\ [][NextShape]_vars

(***************************************************************************)
(* The program with no call of fuse_datasets in progress.                  *)
(***************************************************************************)
FusionIdle ==
    /\ orig_a = NoTable /\ orig_b = NoTable
    /\ heap = [r \in {"df_a", "df_b"} |-> NoTable]
    /\ args = ArgsOf(CHOOSE x \in ArgSets({42}) : TRUE)
    /\ env = [pycaret_installed |-> FALSE]
    /\ rng = 0
    /\ LocalsAtEntry
    /\ call_no = 1
    /\ first = <<>>
    /\ y_series = NoSeries
    /\ detected = "none"

(***************************************************************************)
(* web/routers/fusion.py: the in-memory job store of the asynchronous      *)
(* endpoints.  Each handler takes _JOB_STORE_LOCK around its accesses; the *)
(* clock is time.time() in seconds.                                        *)
(***************************************************************************)
\* web/routers/fusion.py:24
JOB_TTL_SECONDS == 3600

MaxJobs == 2

MaxTicks == 4

\* the clock moves in steps of half the time to live
TickSeconds == JOB_TTL_SECONDS \div 2

Pending == [status |-> "pending", detail |-> "none"]

Done == [status |-> "done", detail |-> "result"]

Error(e) == [status |-> "error", detail |-> e.type]

\* dict with key k set to v
DictPut(d, k, v) == [x \in DOMAIN d \cup {k} |-> IF x = k THEN v ELSE d[x]]

\* dict without the keys in ks
DictPop(d, ks) == [x \in DOMAIN d \ ks |-> d[x]]

\* the expired jobs taken out of the store but not out of the timestamps
_cleanup_old_jobs_store_only(store, stamps, current_time) ==
    LET expired_jobs == {j \in DOMAIN stamps : current_time - stamps[j] > JOB_TTL_SECONDS}
    IN  [store |-> DictPop(store, expired_jobs), stamps |-> stamps]

\* web/routers/fusion.py:31-48
_cleanup_old_jobs(store, stamps, current_time) ==
    LET expired_jobs == {j \in DOMAIN stamps : current_time - stamps[j] > JOB_TTL_SECONDS}
    IN  [store |-> DictPop(store, expired_jobs), stamps |-> DictPop(stamps, expired_jobs)]

\* what perform_fusion does when the background task runs it: it returns a
\* response or raises an exception of some class
PerformFusionOutcomes ==
    {Ok("result")} \cup
    {Raise(t, "perform_fusion") : t \in {"ValueError", "AttributeError", "OverlapError", "KeyError"}}

\* time passes
Tick ==
    /\ clock < MaxTicks * TickSeconds
    /\ clock' = clock + TickSeconds
    /\ UNCHANGED << _JOB_STORE, _JOB_TIMESTAMPS, tasks, answer >>
    /\ UNCHANGED << fusion_vars, http_vars, cv_vars, side_vars >>

\* web/routers/fusion.py:75-87; uuid4 gives an id never used before
fuse_async ==
    /\ Cardinality(DOMAIN tasks) < MaxJobs
    /\ LET job_id == Cardinality(DOMAIN tasks) + 1
           cleaned == _cleanup_old_jobs(_JOB_STORE, _JOB_TIMESTAMPS, clock)
       IN  /\ _JOB_STORE' = DictPut(cleaned.store, job_id, Pending)
           /\ _JOB_TIMESTAMPS' = DictPut(cleaned.stamps, job_id, clock)
           /\ tasks' = DictPut(tasks, job_id, "scheduled")
    /\ UNCHANGED << clock, answer >>
    /\ UNCHANGED << fusion_vars, http_vars, cv_vars, side_vars >>

\* web/routers/fusion.py:60-72, the background task of job_id
_run_fusion_job(job_id) ==
    /\ job_id \in DOMAIN tasks
    /\ tasks[job_id] = "scheduled"
    /\ \E result \in PerformFusionOutcomes :
          /\ _JOB_STORE' = DictPut(_JOB_STORE, job_id,
                                   IF result.ok THEN Done ELSE Error(result.exc))
          /\ _JOB_TIMESTAMPS' = DictPut(_JOB_TIMESTAMPS, job_id, clock)
    /\ tasks' = [tasks EXCEPT ![job_id] = "ended"]
    /\ UNCHANGED << clock, answer >>
    /\ UNCHANGED << fusion_vars, http_vars, cv_vars, side_vars >>

\* web/routers/fusion.py:90-100, asked about a job that fuse_async created
fuse_async_status(job_id) ==
    /\ job_id \in DOMAIN tasks
    /\ LET cleaned == _cleanup_old_jobs(_JOB_STORE, _JOB_TIMESTAMPS, clock)
       IN  /\ _JOB_STORE' = cleaned.store
           /\ _JOB_TIMESTAMPS' = cleaned.stamps
           /\ answer' = IF job_id \notin DOMAIN cleaned.store
                        THEN [job_id |-> job_id, status_code |-> 404, status |-> "none",
                              run_ended |-> tasks[job_id] = "ended"]
                        ELSE [job_id |-> job_id, status_code |-> 200,
                              status |-> cleaned.store[job_id].status,
                              run_ended |-> tasks[job_id] = "ended"]
    /\ UNCHANGED << clock, tasks >>
    /\ UNCHANGED << fusion_vars, http_vars, cv_vars, side_vars >>

RunFusionJob == \E job_id \in 1..MaxJobs : _run_fusion_job(job_id)

FuseAsyncStatus == \E job_id \in 1..MaxJobs : fuse_async_status(job_id)

InitJobs ==
    /\ FusionIdle /\ HttpIdle /\ JobsIdle /\ CvIdle /\ SideIdle
    /\ pc = "serving"

NextJobs ==
    \/ Tick
    \/ fuse_async
    \/ RunFusionJob
    \/ FuseAsyncStatus

SpecJobs == InitJobs /\ [][NextJobs]_vars

\* Starlette runs every background task that was added
SpecJobsFair == SpecJobs /\ WF_vars(RunFusionJob)

(***************************************************************************)
(* cross_validate_metrics called on its own (modeling.py:250-300).         *)
(***************************************************************************)
CvMaxObs == 3

RECURSIVE TargetVals(_)
\* the target columns of n observations over two values and missing
TargetVals(n) ==
    IF n = 0 THEN {<<>>}
    ELSE {Append(v, x) : v \in TargetVals(n - 1), x \in {<<0>>, <<1>>, <<>>}}

CvFrame(n) ==
    [n |-> n, cols |-> <<"f">>,
     col |-> [c \in {"f"} |-> [dtype |-> "int64", cats |-> <<>>,
                               vals |-> [k \in 1..n |-> <<k>>]]]]

\* a FusionConfig as declared (config.py:6-25) has no n_jobs attribute; one
\* that a caller has set the attribute on has
CvConfigs ==
    {[FusionConfig(FALSE, s) EXCEPT !.cv_splits = k, !.n_jobs = j] :
        s \in {0, 1}, k \in 0..3, j \in {<<>>, <<1>>}}

InitCv ==
    /\ FusionIdle /\ HttpIdle /\ JobsIdle /\ SideIdle
    /\ pc = "cross_validate_metrics"
    /\ \E n \in 0..CvMaxObs, pt \in {"classification", "regression"}, cfg \in CvConfigs :
          \E vals \in TargetVals(n) :
             cv_args = [X |-> CvFrame(n),
                        y |-> [name |-> "y", dtype |-> "float64", cats |-> <<>>, vals |-> vals],
                        problem_type |-> pt, config |-> cfg]
    /\ cv_result = <<>>

CrossValidate ==
    /\ pc = "cross_validate_metrics"
    /\ cv_result' = cross_validate_metrics(cv_args.X, cv_args.y, cv_args.problem_type,
                                           cv_args.config, rng)
    /\ pc' = "returned"
    /\ UNCHANGED << heap, orig_a, orig_b, args, env, rng, config, overlap_features,
                    targets_from_a, targets_from_b, a_feat, b_feat, a_pred, b_pred, idx,
                    models_a_to_b, metrics_a_to_b, models_b_to_a, metrics_b_to_a,
                    fused, calls, warnings, exc, call_no, first, y_series, detected >>
    /\ UNCHANGED << cv_args, http_vars, job_vars, side_vars >>

NextCv == CrossValidate

SpecCv == InitCv /\ [][NextCv]_vars

(***************************************************************************)
(* predict called on its own (modeling.py:228-247), on a feature table and *)
(* on another arrangement of the same data.                                *)
(***************************************************************************)
PredictFeatures == {<<"f", "g">>, <<"g", "f">>, <<"f">>}

PredictColumns ==
    {<<"f", "g">>, <<"g", "f">>, <<"f", "g", "h">>, <<"h", "g", "f">>, <<"g">>}

\* the cell of column c in row r; every arrangement holds the same cells
PredictCell(c, r, d) ==
    <<(CASE c = "f" -> 1 [] c = "g" -> 3 [] OTHER -> 5) + r + d>>

PredictFrame(cols, n, d) ==
    [n |-> n, cols |-> cols,
     col |-> [c \in Range(cols) |->
                [dtype |-> "int64", cats |-> <<>>,
                 vals |-> [r \in 1..n |-> PredictCell(c, r, d)]]]]

\* the TrainedModel records (modeling.py:120-127)
TrainedModels ==
    [problem_type : {"classification", "regression"},
     model : [seed : {0, 1},
              fit_y : {[name |-> "t", dtype |-> "int64", cats |-> <<>>,
                        vals |-> << <<0>>, <<1>>, <<2>> >>]}],
     backend : {"sklearn", "pycaret"},
     target : {"t"},
     features : PredictFeatures,
     extra : {None, Some({}), Some({"experiment"})}]

InitPredict ==
    /\ FusionIdle /\ HttpIdle /\ JobsIdle /\ CvIdle /\ LimiterIdle /\ AppIdle
    /\ pc = "predict"
    /\ \E m \in TrainedModels, c1 \in PredictColumns, c2 \in PredictColumns,
          n \in 0..MaxRows, d \in 0..1 :
          predict_args = [model |-> m, X |-> PredictFrame(c1, n, d),
                          X_other |-> PredictFrame(c2, n, d)]
    /\ predict_result = <<>>

Predict ==
    /\ pc = "predict"
    /\ predict_result' = [first |-> predict(predict_args.model, predict_args.X),
                          other |-> predict(predict_args.model, predict_args.X_other)]
    /\ pc' = "returned"
    /\ UNCHANGED << heap, orig_a, orig_b, args, env, rng, config, overlap_features,
                    targets_from_a, targets_from_b, a_feat, b_feat, a_pred, b_pred, idx,
                    models_a_to_b, metrics_a_to_b, models_b_to_a, metrics_b_to_a,
                    fused, calls, warnings, exc, call_no, first, y_series, detected >>
    /\ UNCHANGED << predict_args, http_vars, job_vars, cv_vars, limiter_vars, app_vars >>

NextPredict == Predict

SpecPredict == InitPredict /\ [][NextPredict]_vars

(***************************************************************************)
(* fuse_datasets on tables whose shared feature column has a dtype of its  *)
(* own on each side, with the cardinality warning switched on or off.      *)
(***************************************************************************)
AlignDTypes == {"object", "category", "int64"}

AlignLayouts ==
    {l \in Layouts : l["f"] = "both" /\ l["t"] \in {"a", "both"} /\ l["t_pred"] = "none"}

\* df[c] = df[c].astype(dtype) on the caller's side, before the call
WithDType(df, c, dtype) ==
    IF c \notin Columns(df) THEN df
    ELSE [df EXCEPT !.col[c] =
             [dtype |-> dtype,
              cats |-> IF dtype = "category" THEN SortedSeqOf(unique(df.col[c].vals))
                       ELSE <<>>,
              vals |-> df.col[c].vals]]

AlignConfigs ==
    {[ConfigWithNJobs(FALSE, 42, 2) EXCEPT
         !.warn_on_high_cardinality = w, !.max_category_cardinality = m] :
        w \in BOOLEAN, m \in 2..3}

InitAlign ==
    /\ HttpIdle /\ JobsIdle /\ CvIdle /\ SideIdle
    /\ \E l \in AlignLayouts, na \in 0..MaxRows, nb \in 0..MaxRows,
          da \in AlignDTypes, db \in AlignDTypes :
          /\ orig_a = WithDType(MakeTable("a", l, na), "f", da)
          /\ orig_b = WithDType(MakeTable("b", l, nb), "f", db)
          /\ \E ov \in {None, Some(<<"t", "f">>)}, cfg \in AlignConfigs :
                /\ (ov.given => l["t"] = "both")
                /\ args = [overlap_features |-> ov, targets_from_a |-> None,
                           targets_from_b |-> None, problem_type_map |-> None,
                           prefer_pycaret |-> FALSE, random_state |-> 42,
                           config |-> Some(cfg)]
    /\ heap = [r \in {"df_a", "df_b"} |-> IF r = "df_a" THEN orig_a ELSE orig_b]
    /\ env = [pycaret_installed |-> FALSE]
    /\ rng = 0
    /\ LocalsAtEntry
    /\ pc = "start"
    /\ call_no = 1
    /\ first = <<>>
    /\ y_series = NoSeries
    /\ detected = "none"

NextAlign == Next

SpecAlign == InitAlign /\ [][NextAlign]_vars

(***************************************************************************)
(* web/middleware.py: the in-memory RateLimiter behind                     *)
(* rate_limit_middleware.  is_allowed has no await in it, so each call     *)
(* runs to its end on the event loop before the next one starts.           *)
(***************************************************************************)
\* web/middleware.py:33, 62: cutoff_time = current_time - 60
WindowSeconds == 60

\* web/middleware.py:24
_cleanup_interval == 60

MaxPerMinute == 2

MaxRequests == 4

MaxLimiterTicks == 4

\* the clock moves in steps of half the window
LimiterStep == WindowSeconds \div 2

Clients == {"10.0.0.1", "10.0.0.2"}

ExemptPaths == {"/v1/health", "/health", "/metrics"}

Paths == {"/v1/fuse", "/v1/health"}

\* a request exactly one window old still counted
recent_inclusive(timestamps, cutoff_time) ==
    SelectSeq(timestamps, LAMBDA timestamp : timestamp >= cutoff_time)

\* [timestamp for timestamp in ... if timestamp > cutoff_time]
\* (web/middleware.py:35-38, 63-66)
recent(timestamps, cutoff_time) ==
    SelectSeq(timestamps, LAMBDA timestamp : timestamp > cutoff_time)

\* web/middleware.py:21-25
RateLimiter(requests_per_minute, now) ==
    [requests_per_minute |-> requests_per_minute, requests |-> <<>>, _last_cleanup |-> now]

\* web/middleware.py:27-42
_cleanup_old_entries(self, current_time) ==
    IF current_time - self._last_cleanup < _cleanup_interval THEN self
    ELSE LET pruned == [key \in DOMAIN self.requests |->
                           recent(self.requests[key], current_time - WindowSeconds)]
         IN  [self EXCEPT
                 !.requests = DictPop(pruned, {key \in DOMAIN pruned : pruned[key] = <<>>}),
                 !._last_cleanup = current_time]

\* web/middleware.py:55-74: the limiter after the call and what it returned
is_allowed(self, client_id, current_time) ==
    LET cleaned == _cleanup_old_entries(self, current_time)
        old == IF client_id \in DOMAIN cleaned.requests
               THEN cleaned.requests[client_id] ELSE <<>>
        kept == recent(old, current_time - WindowSeconds)
    IN  IF Len(kept) >= self.requests_per_minute
        THEN [self |-> [cleaned EXCEPT !.requests = DictPut(cleaned.requests, client_id, kept)],
              allowed |-> FALSE]
        ELSE [self |-> [cleaned EXCEPT !.requests =
                           DictPut(cleaned.requests, client_id, Append(kept, current_time))],
              allowed |-> TRUE]

\* time passes
LimiterTick ==
    /\ clock < MaxLimiterTicks * LimiterStep
    /\ clock' = clock + LimiterStep
    /\ UNCHANGED << _JOB_STORE, _JOB_TIMESTAMPS, tasks, answer >>
    /\ UNCHANGED << fusion_vars, http_vars, cv_vars, predict_vars, limiter_vars, app_vars >>

\* web/middleware.py:77-99, for a request of the client on the path
rate_limit_middleware(client_id, path) ==
    /\ Len(decisions) < MaxRequests
    /\ IF path \in ExemptPaths
       THEN UNCHANGED << rate_limiter, decisions >>
       ELSE LET call == is_allowed(rate_limiter, client_id, clock)
            IN  /\ rate_limiter' = call.self
                /\ decisions' = Append(decisions, [client |-> client_id, time |-> clock,
                                                   allowed |-> call.allowed])
    /\ UNCHANGED << fusion_vars, http_vars, job_vars, cv_vars, predict_vars, app_vars >>

RateLimitMiddleware ==
    \E client_id \in Clients, path \in Paths : rate_limit_middleware(client_id, path)

\* web/app.py:65-66: the limiter as create_app constructs it
InitLimiter ==
    /\ FusionIdle /\ HttpIdle /\ JobsIdle /\ CvIdle /\ PredictIdle /\ AppIdle
    /\ pc = "serving"
    /\ \E requests_per_minute \in 1..MaxPerMinute :
          rate_limiter = RateLimiter(requests_per_minute, clock)
    /\ decisions = <<>>

NextLimiter ==
    \/ LimiterTick
    \/ RateLimitMiddleware

SpecLimiter == InitLimiter /\ [][NextLimiter]_vars

(***************************************************************************)
(* web/config.py and web/app.py: the settings read from the environment    *)
(* and the middleware create_app installs for them.                        *)
(***************************************************************************)
\* the DFML_* values as pydantic has parsed them (web/config.py:12-66);
\* an unset variable leaves the field at its default
Environments ==
    [cors_enabled : BOOLEAN,
     cors_origins : {<<>>, <<"*">>, <<"https://a.example">>,
                     <<"https://a.example", "*">>,
                     <<"https://a.example", "https://b.example">>},
     cors_allow_credentials : BOOLEAN,
     rate_limit_enabled : BOOLEAN,
     jwt_enabled : BOOLEAN,
     jwt_secret : {None, Some(""), Some("secret")}]

\* web/config.py:78-104
from_env(settings) ==
    IF settings.cors_allow_credentials /\ "*" \in Range(settings.cors_origins)
    THEN Raise("ValueError", "cors")
    ELSE IF settings.jwt_enabled /\ (~settings.jwt_secret.given \/ settings.jwt_secret.v = "")
    THEN Raise("ValueError", "jwt")
    ELSE Ok(settings)

\* web/app.py:44-60: the CORSMiddleware added for the settings, if any
CORSMiddleware(settings) ==
    IF settings.cors_enabled
    THEN Some([allow_origins |-> IF settings.cors_origins # <<>>
                                 THEN settings.cors_origins ELSE <<"*">>,
               allow_credentials |-> settings.cors_allow_credentials])
    ELSE None

\* web/app.py:38-143
create_app(environment) ==
    LET loaded == from_env(environment)
    IN  IF ~loaded.ok THEN [created |-> FALSE, exc |-> loaded.exc, cors |-> None,
                            rate_limit |-> FALSE, jwt_auth |-> FALSE]
        ELSE [created |-> TRUE, exc |-> NoExc, cors |-> CORSMiddleware(loaded.v),
              rate_limit |-> loaded.v.rate_limit_enabled,
              jwt_auth |-> loaded.v.jwt_enabled]

InitApp ==
    /\ FusionIdle /\ HttpIdle /\ JobsIdle /\ CvIdle /\ PredictIdle /\ LimiterIdle
    /\ pc = "create_app"
    /\ environ \in Environments
    /\ app = <<>>

CreateApp ==
    /\ pc = "create_app"
    /\ app' = create_app(environ)
    /\ pc' = "created"
    /\ UNCHANGED << heap, orig_a, orig_b, args, env, rng, config, overlap_features,
                    targets_from_a, targets_from_b, a_feat, b_feat, a_pred, b_pred, idx,
                    models_a_to_b, metrics_a_to_b, models_b_to_a, metrics_b_to_a,
                    fused, calls, warnings, exc, call_no, first, y_series, detected >>
    /\ UNCHANGED << environ, http_vars, job_vars, cv_vars, predict_vars, limiter_vars >>

NextApp == CreateApp

SpecApp == InitApp /\ [][NextApp]_vars

(***************************************************************************)
(* Properties.                                                             *)
(***************************************************************************)
Finished == pc \in {"done", "raised"}

SharedColumns == Columns(orig_a) \cap Columns(orig_b)

ExclusiveA == Columns(orig_a) \ Columns(orig_b)

ExclusiveB == Columns(orig_b) \ Columns(orig_a)

DefaultInference ==
    /\ ~args.overlap_features.given
    /\ ~args.targets_from_a.given
    /\ ~args.targets_from_b.given
    /\ ~args.problem_type_map.given

BaselineBackend == get_trainer(EffectiveConfig(args), env) = "SklearnTrainer"

\* the lists the call resolves from its arguments
ResolvedOverlap == ResolveOverlapFeatures(orig_a, orig_b, args)

ResolvedTargetsA == ResolveTargetsA(orig_a, orig_b, args)

ResolvedTargetsB == ResolveTargetsB(orig_a, orig_b, args)

\* C1: with at least one shared column, at least one exclusive column, no
\* explicit overlap or target list and the baseline backend, the call returns
\* a result, and its fused table has len(A) + len(B) rows.
C1_FuseReturnsFusedOfAllRows ==
    (/\ Finished
     /\ SharedColumns # {}
     /\ ExclusiveA \cup ExclusiveB # {}
     /\ DefaultInference
     /\ BaselineBackend)
    => (pc = "done" /\ fused.n = orig_a.n + orig_b.n)

\* C2: when the resolved overlap set is empty the call fails with
\* OverlapError and leaves A and B unchanged.
C2_EmptyOverlapRaisesOverlapError ==
    (Finished /\ Len(ResolvedOverlap) = 0)
    => (/\ pc = "raised"
        /\ exc.type = "OverlapError"
        /\ df_a = orig_a
        /\ df_b = orig_b)

\* C3: when the overlap is non-empty and both resolved target sets are empty
\* the call fails with TargetsError.
C3_NoTargetsRaisesTargetsError ==
    (/\ Finished
     /\ Len(ResolvedOverlap) > 0
     /\ Len(ResolvedTargetsA) = 0
     /\ Len(ResolvedTargetsB) = 0)
    => (pc = "raised" /\ exc.type = "TargetsError")

\* C4: a run that ends in the empty-overlap or the empty-targets error has
\* made no call to train_model, cross_validate_metrics or predict; the
\* overlap error is raised exactly when the overlap is empty (also when both
\* target sets are empty too), the targets error exactly when the overlap is
\* not empty and both target sets are.
C4_ValidationErrorsBeforeAnyModelCall ==
    Finished =>
        /\ (Len(ResolvedOverlap) = 0
               <=> (pc = "raised" /\ exc.site = "overlap"))
        /\ ((Len(ResolvedOverlap) > 0 /\ Len(ResolvedTargetsA) = 0
                                      /\ Len(ResolvedTargetsB) = 0)
               <=> (pc = "raised" /\ exc.site = "targets"))
        /\ (pc = "raised" /\ exc.site \in {"overlap", "targets"} => calls = <<>>)

\* both conditions at once, with shared columns present: an explicit overlap
\* list naming no shared column and no target on either side
C4_Witness ==
    /\ pc = "raised"
    /\ exc.site = "overlap"
    /\ calls = <<>>
    /\ Len(ResolvedTargetsA) = 0
    /\ Len(ResolvedTargetsB) = 0
    /\ orig_a.n > 0

\* C5: at every point of a call, whether it goes on to return or to raise,
\* the caller's A and B have the columns, dtypes and cells they had at entry.
C5_InputsNeverMutated == df_a = orig_a /\ df_b = orig_b

\* a returned result whose enriched tables both gained a column and whose
\* feature frames were coerced to a categorical dtype
C5_Witness ==
    /\ pc = "done"
    /\ Columns(a_enriched) # Columns(orig_a)
    /\ Columns(b_enriched) # Columns(orig_b)
    /\ \E c \in Columns(heap[a_feat]) :
          /\ heap[a_feat].col[c].dtype = "category"
          /\ orig_a.col[c].dtype # "category"
    /\ df_a = orig_a
    /\ df_b = orig_b

\* C6: in a returned result, when the target list of a side was inferred,
\* every exclusive column of that side is a column of the other side's
\* enriched table, and no inferred target is a column of the other input.
C6_InferredTargetsAreTheExclusiveColumns ==
    pc = "done" =>
        /\ (~args.targets_from_a.given =>
               /\ ExclusiveA \subseteq Columns(b_enriched)
               /\ Range(targets_from_a) \cap Columns(orig_b) = {})
        /\ (~args.targets_from_b.given =>
               /\ ExclusiveB \subseteq Columns(a_enriched)
               /\ Range(targets_from_b) \cap Columns(orig_a) = {})

\* both target lists inferred and non-empty, and each exclusive column has
\* arrived in the other side's enriched table
C6_Witness ==
    /\ pc = "done"
    /\ ~args.targets_from_a.given
    /\ ~args.targets_from_b.given
    /\ ExclusiveA # {}
    /\ ExclusiveB # {}
    /\ ExclusiveA \subseteq Columns(b_enriched) \ Columns(orig_b)
    /\ ExclusiveB \subseteq Columns(a_enriched) \ Columns(orig_a)

\* C7: in a returned result the keys of the metrics map and of the models map
\* of each direction are that direction's resolved targets, and the model
\* stored under a key has that key as its target and the overlap feature
\* list, in order, as its features.
C7_MapsKeyedByResolvedTargets ==
    pc = "done" =>
        /\ DOMAIN metrics_a_to_b = Range(ResolvedTargetsA)
        /\ DOMAIN models_a_to_b = Range(ResolvedTargetsA)
        /\ DOMAIN metrics_b_to_a = Range(ResolvedTargetsB)
        /\ DOMAIN models_b_to_a = Range(ResolvedTargetsB)
        /\ \A t \in DOMAIN models_a_to_b :
              /\ models_a_to_b[t].target = t
              /\ models_a_to_b[t].features = ResolvedOverlap
        /\ \A t \in DOMAIN models_b_to_a :
              /\ models_b_to_a[t].target = t
              /\ models_b_to_a[t].features = ResolvedOverlap

\* models in both directions, trained on an overlap list of two features
\* given in an order that is not the sorted one
C7_Witness ==
    /\ pc = "done"
    /\ DOMAIN models_a_to_b # {}
    /\ DOMAIN models_b_to_a # {}
    /\ Len(ResolvedOverlap) = 2
    /\ ResolvedOverlap # sorted(Range(ResolvedOverlap))
    /\ \A t \in DOMAIN models_a_to_b : models_a_to_b[t].features = ResolvedOverlap

DistinctNonMissing(series) ==
    Cardinality({series.vals[i] : i \in 1..Len(series.vals)} \ {<<>>})

NonMissingCount(series) ==
    Cardinality({i \in 1..Len(series.vals) : series.vals[i] # <<>>})

\* C9, as stated: float gives regression; an integer column gives
\* classification exactly when its distinct count is at most 20 and at most
\* 20% of its non-missing count; any other column gives classification.
C9_DetectRuleAsStated ==
    pc = "detected" =>
        detected =
            IF y_series.dtype = "float64" THEN "regression"
            ELSE IF y_series.dtype \in {"int64", "Int64"}
            THEN IF /\ DistinctNonMissing(y_series) <= 20
                    /\ 5 * DistinctNonMissing(y_series) <= NonMissingCount(y_series)
                 THEN "classification" ELSE "regression"
            ELSE "classification"

\* C9, amended: float gives regression; an integer column gives
\* classification exactly when its distinct count is at most 20 and is either
\* at most 2 or at most 20% of its non-missing count; any other column gives
\* classification.
C9_DetectRule ==
    pc = "detected" =>
        detected =
            IF y_series.dtype = "float64" THEN "regression"
            ELSE IF y_series.dtype \in {"int64", "Int64"}
            THEN IF /\ DistinctNonMissing(y_series) <= 20
                    /\ \/ DistinctNonMissing(y_series) <= 2
                       \/ 5 * DistinctNonMissing(y_series) <= NonMissingCount(y_series)
                 THEN "classification" ELSE "regression"
            ELSE "classification"

\* an integer column of two distinct values over fewer than ten cells, found
\* to be a classification target
C9_Witness ==
    /\ pc = "detected"
    /\ y_series.dtype = "int64"
    /\ DistinctNonMissing(y_series) = 2
    /\ NonMissingCount(y_series) < 10
    /\ detected = "classification"

\* the lists have been resolved: the call is past both resolutions
Resolved == pc \notin {"start", "targets"} /\ ~(pc = "raised" /\ exc.site = "overlap")

\* C10, as stated: after resolution the overlap list holds only columns of
\* both A and B and no resolved target of either side, whatever mix of
\* explicit and inferred arguments was passed.
C10_OverlapSharedAndDisjointFromTargets ==
    Resolved =>
        /\ Range(overlap_features) \subseteq SharedColumns
        /\ Range(overlap_features)
              \cap (Range(targets_from_a) \cup Range(targets_from_b)) = {}

\* C10, amended: after resolution the overlap list holds only columns of both
\* A and B, and a resolved target is in it only when both the overlap list
\* and that side's target list were passed explicitly.
C10_OverlapSharedAndDisjointUnlessExplicit ==
    Resolved =>
        /\ Range(overlap_features) \subseteq SharedColumns
        /\ (Range(overlap_features) \cap Range(targets_from_a) # {}
               => args.overlap_features.given /\ args.targets_from_a.given)
        /\ (Range(overlap_features) \cap Range(targets_from_b) # {}
               => args.overlap_features.given /\ args.targets_from_b.given)

\* an inferred overlap list from which an explicit target that is a shared
\* column has been left out
C10_Witness ==
    /\ Resolved
    /\ ~args.overlap_features.given
    /\ args.targets_from_a.given
    /\ Range(targets_from_a) \cap SharedColumns # {}
    /\ overlap_features # <<>>
    /\ Range(overlap_features) \cap Range(targets_from_a) = {}

\* the cell of the fused table at row r, column c, and the cell the enriched
\* tables give for it: rows 1..len(A) come from A-enriched, the rest from
\* B-enriched
FusedCell(c, r) == fused.col[c].vals[r]

SourceOfRow(r) == IF r <= a_enriched.n THEN a_enriched ELSE b_enriched

SourceRow(r) == IF r <= a_enriched.n THEN r ELSE r - a_enriched.n

\* C11, as stated: the fused columns are the union of the enriched tables'
\* columns, the rows are A-enriched's then B-enriched's in order, and a
\* cell is missing exactly where its column is absent from the table its
\* row came from, every other cell being that table's value.
C11_FusedMissingExactlyWhereAbsent ==
    pc = "done" =>
        /\ Columns(fused) = Columns(a_enriched) \cup Columns(b_enriched)
        /\ fused.n = a_enriched.n + b_enriched.n
        /\ \A c \in Columns(fused) : \A r \in 1..fused.n :
              /\ (FusedCell(c, r) = <<>> <=> c \notin Columns(SourceOfRow(r)))
              /\ (c \in Columns(SourceOfRow(r)) =>
                     FusedCell(c, r) = SourceOfRow(r).col[c].vals[SourceRow(r)])

\* C11, amended: the fused columns are the union of the enriched tables'
\* columns, the rows are A-enriched's then B-enriched's in order, a cell
\* whose column is absent from the table its row came from is missing, and
\* every other cell is that table's cell (missing where that cell is).
C11_FusedIsUnionConcat ==
    pc = "done" =>
        /\ Columns(fused) = Columns(a_enriched) \cup Columns(b_enriched)
        /\ fused.n = a_enriched.n + b_enriched.n
        /\ \A c \in Columns(fused) : \A r \in 1..fused.n :
              FusedCell(c, r) =
                  IF c \in Columns(SourceOfRow(r))
                  THEN SourceOfRow(r).col[c].vals[SourceRow(r)]
                  ELSE <<>>

\* a fused table with rows from both sides and a column that A-enriched
\* lacks, whose cells are missing on A's rows and present on a row of B
C11_Witness ==
    /\ pc = "done"
    /\ a_enriched.n > 0
    /\ b_enriched.n > 0
    /\ \E c \in Columns(b_enriched) \ Columns(a_enriched) :
          /\ \A r \in 1..a_enriched.n : FusedCell(c, r) = <<>>
          /\ \E r \in (a_enriched.n + 1)..fused.n : FusedCell(c, r) # <<>>

C13_InvalidConfigRaisesConfigurationError ==
    (Finished /\ EffectiveConfig(args).cv_splits < 2)
    => (/\ pc = "raised"
        /\ exc.type = "ConfigurationError"
        /\ \A k \in 1..Len(calls) : calls[k].fn # "train_model")

\* the trainer get_trainer is to pick for the effective configuration
ExpectedBackend ==
    IF EffectiveConfig(args).prefer_pycaret /\ env.pycaret_installed
    THEN "pycaret" ELSE "sklearn"

\* C14: every model train_model has returned was trained by the PyCaret
\* trainer if the effective configuration prefers it and pycaret can be
\* imported, by the sklearn trainer otherwise, and its backend field says so.
C14_BackendIsPreferredAndAvailable ==
    /\ \A t \in DOMAIN models_a_to_b : models_a_to_b[t].backend = ExpectedBackend
    /\ \A t \in DOMAIN models_b_to_a : models_b_to_a[t].backend = ExpectedBackend

\* pycaret preferred but not importable: the models are sklearn's
C14_Witness ==
    /\ pc = "done"
    /\ EffectiveConfig(args).prefer_pycaret
    /\ ~env.pycaret_installed
    /\ DOMAIN models_a_to_b # {}
    /\ \A t \in DOMAIN models_a_to_b : models_a_to_b[t].backend = "sklearn"


Responded == pc = "responded"

Answered200 == Responded /\ response.status_code = 200

\* C15: a request whose tables share no column, and every overlap or
\* targets validation failure of fuse_datasets, is answered with status
\* 400, and every configuration failure with status 422.
C15_ValidationFailuresAnswer400 ==
    Responded =>
        /\ (SharedColumns = {} /\ ~args.overlap_features.given
               => response.status_code = 400)
        /\ (exc.site \in {"overlap", "targets"} => response.status_code = 400)
        /\ (exc.type = "ConfigurationError" => response.status_code = 422)

IsFinite(v) == v \notin {NaN, PosInf, NegInf}

FiniteOnly(orig, out) ==
    /\ DOMAIN out = DOMAIN orig
    /\ \A k \in DOMAIN orig :
          /\ DOMAIN out[k] = {mk \in DOMAIN orig[k] : IsFinite(orig[k][mk])}
          /\ \A mk \in DOMAIN out[k] : out[k][mk] = orig[k][mk]

BodyTables ==
    {<<response.body.fused, fused>>,
     <<response.body.a_enriched, a_enriched>>,
     <<response.body.b_enriched, b_enriched>>}

PartsCarried ==
    {p \in Range(AllParts) :
        CASE p = "fused" -> response.body.fused.given
          [] p = "a_enriched" -> response.body.a_enriched.given
          [] p = "b_enriched" -> response.body.b_enriched.given
          [] p = "metrics" -> response.body.metrics_a_to_b.given
                              /\ response.body.metrics_b_to_a.given}

PartsNull ==
    {p \in Range(AllParts) :
        CASE p = "fused" -> ~response.body.fused.given
          [] p = "a_enriched" -> ~response.body.a_enriched.given
          [] p = "b_enriched" -> ~response.body.b_enriched.given
          [] p = "metrics" -> ~response.body.metrics_a_to_b.given
                              /\ ~response.body.metrics_b_to_a.given}

RowsAndColumnsShaped ==
    \A bt \in BodyTables :
        bt[1].given =>
            /\ req.row_limit.given => Len(bt[1].v) = Min(req.row_limit.v, bt[2].n)
            /\ ~req.row_limit.given => Len(bt[1].v) = bt[2].n
            /\ (req.columns_include.given
                /\ Range(req.columns_include.v) \cap Columns(bt[2]) # {})
                  => \A r \in 1..Len(bt[1].v) :
                        DOMAIN bt[1].v[r] =
                            (Range(req.columns_include.v) \cap Columns(bt[2]))
                            \ (IF req.columns_exclude.given
                               THEN Range(req.columns_exclude.v) ELSE {})
            /\ \A r \in 1..Len(bt[1].v) : \A c \in DOMAIN bt[1].v[r] :
                  bt[1].v[r][c] = bt[2].col[c].vals[r]

JobIds == DOMAIN tasks

\* C17: a status answer about a job whose background run has not ended is
\* 200 with status "pending", and one about a job whose run has ended is
\* never "pending".
C17_PendingUntilRunEnds ==
    answer.job_id # 0 =>
        /\ ~answer.run_ended => (answer.status_code = 200 /\ answer.status = "pending")
        /\ answer.run_ended => answer.status # "pending"

CvReturned == pc = "returned"

CvLimit ==
    IF cv_args.problem_type = "classification" THEN min_per_class(cv_args.y)
    ELSE Len(dropna(cv_args.y.vals))

CvFolds == Min(cv_args.config.cv_splits, Max(2, CvLimit))

\* C19: with k = min(cv_splits, max(2, L)), cross_validate_metrics returns
\* an empty metric map without failing exactly when k < 2.
C19_EmptyMapExactlyWhenFewerThanTwoFolds ==
    CvReturned =>
        /\ CvFolds < 2 => (cv_result.ok /\ cv_result.v.metrics = EmptyMap)
        /\ (cv_result.ok /\ cv_result.v.metrics = EmptyMap) => CvFolds < 2

\* the fold rule where the configuration carries an n_jobs attribute
CvFoldRuleWithNJobs ==
    (CvReturned /\ cv_args.config.n_jobs # <<>>) =>
        /\ CvFolds < 2 <=> (cv_result.ok /\ cv_result.v.metrics = EmptyMap)
        /\ (cv_result.ok /\ CvFolds >= 2) =>
              DOMAIN cv_result.v.metrics = {e.name : e \in Range(scoring(cv_args.problem_type))}

\* C20: the metrics returned for regression are exactly r2, rmse and mae
\* with rmse and mae non-negative, and for classification exactly accuracy,
\* f1_macro and roc_auc_ovr.
C20_MetricsPositivelyOriented ==
    (CvReturned /\ cv_result.ok /\ cv_result.v.metrics # EmptyMap) =>
        LET m == cv_result.v.metrics
        IN  IF cv_args.problem_type = "classification"
            THEN DOMAIN m = {"accuracy", "f1_macro", "roc_auc_ovr"}
            ELSE /\ DOMAIN m = {"r2", "rmse", "mae"}
                 /\ m["rmse"] # NaN => m["rmse"][1] >= 0
                 /\ m["mae"] # NaN => m["mae"][1] >= 0


PredictReturned == pc = "returned" /\ predict_result # <<>>

HasFeatures(X) == Range(predict_args.model.features) \subseteq Columns(X)

\* C21: predict gives the same result for every column order and every
\* extra column of the table it is given; for a pycaret model it fails with
\* a ValueError when extra is None or has no "experiment" entry, and for a
\* sklearn model the result does not depend on extra.
C21_PredictUsesRecordedFeatures ==
    PredictReturned =>
        LET m == predict_args.model
        IN  /\ (HasFeatures(predict_args.X) /\ HasFeatures(predict_args.X_other))
                  => predict_result.first = predict_result.other
            /\ (m.backend = "pycaret" /\ HasFeatures(predict_args.X)
                /\ (~m.extra.given \/ "experiment" \notin m.extra.v))
                  => (~predict_result.first.ok
                      /\ predict_result.first.exc.type = "ValueError")
            /\ m.backend = "sklearn"
                  => \A e \in {None, Some({}), Some({"experiment"})} :
                        predict([m EXCEPT !.extra = e], predict_args.X)
                            = predict_result.first

\* a table with an extra column in another order than the model's features,
\* predicted like the table of exactly the features
C21_Witness ==
    /\ PredictReturned
    /\ predict_args.X.cols = <<"h", "g", "f">>
    /\ predict_args.model.features = <<"f", "g">>
    /\ predict_args.X_other.cols = <<"f", "g">>
    /\ predict_args.X.n > 0
    /\ predict_result.first.ok
    /\ predict_result.first = predict_result.other


\* the call ended with the failure of a target's training, evaluation or
\* prediction
StepFailure == pc = "raised" /\ exc.site \notin {"overlap", "targets"}

TrainCalls == Len(SelectSeq(calls, LAMBDA c : c.fn = "train_model"))

\* C22: an error raised for a target leaves fuse_datasets: no FusionResult
\* is built, the targets processed before it have left only their models
\* behind (the whole A-to-B direction when a target of B fails), and no
\* call is made for a later target.
C22_TargetFailureAbortsCall ==
    /\ exc # NoExc => pc = "raised"
    /\ StepFailure =>
          /\ fused = NoTable
          /\ IF a_pred = NoRef
             THEN /\ idx \in 1..Len(targets_from_a)
                  /\ DOMAIN models_a_to_b = {targets_from_a[k] : k \in 1..(idx - 1)}
                  /\ models_b_to_a = EmptyMap
                  /\ TrainCalls \in {idx - 1, idx}
             ELSE /\ idx \in 1..Len(targets_from_b)
                  /\ DOMAIN models_a_to_b = Range(targets_from_a)
                  /\ DOMAIN models_b_to_a = {targets_from_b[k] : k \in 1..(idx - 1)}
                  /\ TrainCalls \in {Len(targets_from_a) + idx - 1,
                                     Len(targets_from_a) + idx}

\* the first target of B fails after the whole direction A to B has
\* succeeded, and a later target of B is left unprocessed
C22_Witness ==
    /\ StepFailure
    /\ a_pred # NoRef
    /\ models_a_to_b # EmptyMap
    /\ idx < Len(targets_from_b)
    /\ TrainCalls = Len(targets_from_a) + idx


\* _coerce_categorical_alignment has returned
Aligned == a_feat # NoRef /\ b_feat # NoRef

\* C23: once alignment has returned, and for the rest of the call, every
\* overlap column that is object or categorical on either side is
\* categorical on both sides with the sorted union of the distinct
\* non-missing values of A and B as vocabulary and with every cell as it
\* was, and every other (numeric) overlap column is unchanged.
C23_AlignedVocabularyIsSortedUnion ==
    Aligned =>
        /\ heap[a_feat].cols = overlap_features
        /\ heap[b_feat].cols = overlap_features
        /\ \A c \in Range(overlap_features) :
              LET oa == orig_a.col[c]
                  ob == orig_b.col[c]
                  fa == heap[a_feat].col[c]
                  fb == heap[b_feat].col[c]
              IN  IF is_object_or_categorical(oa) \/ is_object_or_categorical(ob)
                  THEN /\ fa.dtype = "category" /\ fb.dtype = "category"
                       /\ fa.cats = SortedSeqOf(unique(oa.vals \o ob.vals))
                       /\ fb.cats = fa.cats
                       /\ fa.vals = oa.vals
                       /\ fb.vals = ob.vals
                  ELSE fa = oa /\ fb = ob

\* a finished call that has trained on a column that is object on one side
\* only and whose vocabulary is larger than either side's own
C23_Witness ==
    /\ pc = "done"
    /\ Aligned
    /\ "f" \in Range(overlap_features) /\ "t" \in Range(overlap_features)
    /\ orig_a.col["f"].dtype = "int64"
    /\ orig_b.col["f"].dtype = "object"
    /\ models_b_to_a # EmptyMap
    /\ Len(heap[a_feat].col["f"].cats) > Cardinality(unique(orig_a.col["f"].vals))
    /\ Len(heap[a_feat].col["f"].cats) > Cardinality(unique(orig_b.col["f"].vals))
    /\ heap[b_feat].col["t"] = orig_b.col["t"]

\* the cardinality check has been passed
CardinalityChecked == Aligned /\ pc # "cardinality"

DistinctOverBoth(c) == Cardinality(unique(orig_a.col[c].vals \o orig_b.col[c].vals))

ExpectedWarnings ==
    {c \in Range(overlap_features) :
        /\ config.warn_on_high_cardinality
        /\ ~is_numeric_dtype(heap[a_feat].col[c])
        /\ DistinctOverBoth(c) > config.max_category_cardinality}

\* C24: a high-cardinality warning is emitted for an overlap column exactly
\* when warn_on_high_cardinality is true, the aligned column is not numeric
\* and its distinct non-missing values over A and B number more than
\* max_category_cardinality; the check changes nothing but the warnings
\* and always goes on to the first direction.
C24_WarningIffHighCardinality ==
    /\ [](CardinalityChecked =>
            /\ Range(warnings) = ExpectedWarnings
            /\ Len(warnings) = Cardinality(ExpectedWarnings))
    /\ [][pc = "cardinality" =>
            /\ pc' = "begin_a_to_b"
            /\ UNCHANGED << heap, orig_a, orig_b, args, env, rng, config, overlap_features,
                            targets_from_a, targets_from_b, a_feat, b_feat, a_pred, b_pred,
                            idx, models_a_to_b, metrics_a_to_b, models_b_to_a,
                            metrics_b_to_a, fused, calls, exc >>]_vars

\* a finished call that warned about the shared column, its three distinct
\* values being more than the threshold of two
C24_Witness ==
    /\ pc = "done"
    /\ config.warn_on_high_cardinality
    /\ warnings = <<"f">>
    /\ DistinctOverBoth("f") = 3
    /\ config.max_category_cardinality = 2


\* the calls before call k that were allowed for the same client within the
\* window before it
AllowedBefore(k) ==
    {j \in 1..(k - 1) :
        /\ decisions[j].client = decisions[k].client
        /\ decisions[j].allowed
        /\ decisions[j].time > decisions[k].time - WindowSeconds}

AllowedTimes(client_id) ==
    {decisions[j].time : j \in {i \in DOMAIN decisions :
                                   decisions[i].client = client_id /\ decisions[i].allowed}}

\* C25: a call of is_allowed returns true exactly when fewer than
\* requests_per_minute allowed calls of the same client lie within the 60
\* seconds before it, so a client is never allowed more than
\* requests_per_minute times in a window; only allowed requests are
\* recorded, each under its own client.
C25_AtMostLimitPerWindow ==
    /\ \A k \in DOMAIN decisions :
          /\ decisions[k].allowed
                <=> Cardinality(AllowedBefore(k)) < rate_limiter.requests_per_minute
          /\ decisions[k].allowed
                => Cardinality(AllowedBefore(k)) + 1 <= rate_limiter.requests_per_minute
    /\ \A client_id \in DOMAIN rate_limiter.requests :
          /\ Range(rate_limiter.requests[client_id]) \subseteq AllowedTimes(client_id)
          /\ Len(rate_limiter.requests[client_id])
                <= Cardinality({j \in DOMAIN decisions : decisions[j].client = client_id
                                                          /\ decisions[j].allowed})

\* a client refused at its limit while the other client is still allowed,
\* and allowed again once its earlier request is a full window old
C25_Witness ==
    /\ Len(decisions) = 4
    /\ rate_limiter.requests_per_minute = 1
    /\ decisions[1] = [client |-> "10.0.0.1", time |-> 0, allowed |-> TRUE]
    /\ decisions[2] = [client |-> "10.0.0.1", time |-> LimiterStep, allowed |-> FALSE]
    /\ decisions[3] = [client |-> "10.0.0.2", time |-> LimiterStep, allowed |-> TRUE]
    /\ decisions[4] = [client |-> "10.0.0.1", time |-> WindowSeconds, allowed |-> TRUE]


\* C26: the application create_app returns never has the CORS middleware
\* installed with allow_credentials true together with the origin "*".
C26_NoCredentialsWithWildcardOrigin ==
    (pc = "created" /\ app.created /\ app.cors.given) =>
        ~(app.cors.v.allow_credentials /\ "*" \in Range(app.cors.v.allow_origins))


\* C27: cross_validate_metrics never fails on a configuration option that
\* the configuration object lacks.
C27_NoMissingConfigOption ==
    CvReturned => ~(~cv_result.ok /\ cv_result.exc.type = "AttributeError")

KeepsColumns(original, enriched) ==
    \A c \in Columns(original) :
        /\ c \in Columns(enriched)
        /\ enriched.col[c] = original.col[c]

\* C28: every column of the original B is a column of B-enriched with its
\* original values, and every column of the original A one of A-enriched
\* with its original values.
C28_PredictionsNeverOverwrite ==
    pc = "done" =>
        /\ KeepsColumns(orig_b, b_enriched)
        /\ KeepsColumns(orig_a, a_enriched)

\* C29: an answer 404 of fuse_async_status for a job id is never followed
\* by an answer 200 for the same id.
C29_NotFoundStaysNotFound ==
    [][(answer.status_code = 404 /\ answer'.job_id = answer.job_id)
          => answer'.status_code # 200]_vars

NoneExpired ==
    \A j \in DOMAIN _JOB_TIMESTAMPS : clock - _JOB_TIMESTAMPS[j] <= JOB_TTL_SECONDS

\* C30: _JOB_STORE and _JOB_TIMESTAMPS always have the same keys, every
\* stored job has status pending, done or error, and after each handler
\* that runs _cleanup_old_jobs no stored job is older than JOB_TTL_SECONDS.
C30_JobStoreConsistent ==
    /\ [](/\ DOMAIN _JOB_STORE = DOMAIN _JOB_TIMESTAMPS
          /\ \A j \in DOMAIN _JOB_STORE :
                _JOB_STORE[j].status \in {"pending", "done", "error"})
    /\ [][(fuse_async \/ FuseAsyncStatus) => NoneExpired']_vars

\* the first job has been removed by the cleanup that ran when the second
\* one, which has failed since, was created more than the time to live later
C30_Witness ==
    /\ DOMAIN tasks = {1, 2}
    /\ DOMAIN _JOB_STORE = {2}
    /\ DOMAIN _JOB_TIMESTAMPS = {2}
    /\ _JOB_STORE[2].status = "error"
    /\ tasks[1] = "ended"
    /\ clock > JOB_TTL_SECONDS

====
